---- MODULE Spec2Model ----
(***************************************************************************)
(* Model of the dimensional-modelling and enrichment pipeline of           *)
(* Compras-Medicamentos-SUS (main.py, src/dimensoes.py,                    *)
(* src/modelagem_dim.py).                                                  *)
(*                                                                         *)
(* A DataFrame is a record [cols, rows]: cols is the ordered sequence of   *)
(* column names, rows the sequence of rows, each row a function from the   *)
(* column names to values.  Values are typed per column:                   *)
(*   - text that is hashed character by character: sequences of one-       *)
(*     character strings: the CNPJ, catalog-code and unit columns;         *)
(*   - other text and the surrogate keys: strings;                         *)
(*   - timestamps: <<YYYYMMDDHH>>, NaT is NULL;                            *)
(*   - source numbers (quantities, prices in whole units): integers;       *)
(*   - derived floats: exact rationals <<num, den>>, NaN is NULL; a        *)
(*     standard deviation is kept as the square root of a rational.        *)
(***************************************************************************)
EXTENDS Integers, Sequences, FiniteSets, TLC

VARIABLES
    pc,         \* position of the run (the statement main / the caller is at)
    df,         \* the table being processed (df_final, then df_fato)
    df_in,      \* the table as it was handed to the operation under study
    dims,       \* dimension tables written so far: sequence of [nome, tabela]
    df_radar,   \* result of gerar_mini_fato_radar_enriquecida
    arquivos,   \* names of the output files written so far
    etapas,     \* names of the operations applied so far, in order
    erro,       \* the exception that left the operation, "" when none
    df0,        \* the fact table as criar_e_integrar_dimensoes returned it
    indice,     \* key formatting: the sequential index being formatted
    prefixo_sk, \* key formatting: the prefix of the dimension
    chave_sk,   \* key formatting: the surrogate key produced
    fontes,     \* ingestion: the CSV files of the raw folder, [tipo, resultado]
    todos_dados,\* ingestion: the tables kept for consolidation (todos_dados)
    cursor      \* ingestion: position in the list of new files

vars == <<pc, df, df_in, dims, df_radar, arquivos, etapas, erro, df0, indice, prefixo_sk,
          chave_sk, fontes, todos_dados, cursor>>

-----------------------------------------------------------------------------
(* Bounds of the model *)

MaxLinhas == 3
MaxLinhasEtapas == 2
MaxEtapas == 2

-----------------------------------------------------------------------------
(* Null values and generic helpers *)

NULL == <<>>

Range(s) == {s[i] : i \in DOMAIN s}

\* F applied to the value x, which F may then use any number of times
Seja(x, F(_)) == F(x)

Max2(a, b) == IF a >= b THEN a ELSE b
Abs(a) == IF a < 0 THEN -a ELSE a

RECURSIVE GCD(_, _)
GCD(a, b) == IF b = 0 THEN a ELSE GCD(b, a % b)

RECURSIVE Flatten(_)
Flatten(ss) == IF Len(ss) = 0 THEN <<>> ELSE Head(ss) \o Flatten(Tail(ss))

RECURSIVE SeqsUpTo(_, _)
\* all sequences over S of length 1..n
SeqsUpTo(S, n) ==
    IF n = 0 THEN {}
    ELSE LET shorter == SeqsUpTo(S, n - 1)
         IN  {<<x>> : x \in S} \cup shorter
             \cup {Append(s, x) : s \in {t \in shorter : Len(t) = n - 1}, x \in S}

-----------------------------------------------------------------------------
(* Exact rational arithmetic standing for float64 arithmetic *)

Rat(n, d) ==
    LET s == IF d < 0 THEN -1 ELSE 1
        g == GCD(Abs(n), Abs(d))
    IN  <<(s * n) \div g, (s * d) \div g>>

RInt(n) == <<n, 1>>
RAdd(p, q) == Rat(p[1] * q[2] + q[1] * p[2], p[2] * q[2])
RSub(p, q) == Rat(p[1] * q[2] - q[1] * p[2], p[2] * q[2])
RMul(p, q) == Rat(p[1] * q[1], p[2] * q[2])
RDiv(p, q) == Rat(p[1] * q[2], p[2] * q[1])
RAbs(p) == <<Abs(p[1]), p[2]>>
RLt(p, q) == p[1] * q[2] < q[1] * p[2]
RLeq(p, q) == p[1] * q[2] <= q[1] * p[2]

RECURSIVE RSum(_)
RSum(qs) == IF Len(qs) = 0 THEN RInt(0) ELSE RAdd(Head(qs), RSum(Tail(qs)))

RECURSIVE ISum(_)
ISum(ns) == IF Len(ns) = 0 THEN 0 ELSE Head(ns) + ISum(Tail(ns))

\* floor of a rational
RFloor(p) == p[1] \div p[2]

\* nearest integer, ties to the even neighbour (numpy's round)
RRoundInt(p) ==
    LET f == RFloor(p)
        twice == RSub(RMul(RInt(2), p), RInt(2 * f))   \* 2 * (p - f) in [0, 2)
    IN  IF RLt(twice, RInt(1)) THEN f
        ELSE IF RLt(RInt(1), twice) THEN f + 1
        ELSE IF f % 2 = 0 THEN f ELSE f + 1

\* Series.round(k) with scale = 10^k
RRound(p, scale) == Rat(RRoundInt(RMul(p, RInt(scale))), scale)

-----------------------------------------------------------------------------
(* DataFrame primitives (pandas) *)

TabelaVazia == [cols |-> <<>>, rows |-> <<>>]

HasCol(t, c) == c \in Range(t.cols)
HasAll(t, cs) == \A i \in DOMAIN cs : HasCol(t, cs[i])
NRows(t) == Len(t.rows)
Coluna(t, c) == [i \in DOMAIN t.rows |-> t.rows[i][c]]

\* df[c] = vals : overwrites the column in place, or appends it as the last one
SetCol(t, c, vals) ==
    [cols |-> IF HasCol(t, c) THEN t.cols ELSE Append(t.cols, c),
     rows |-> [i \in DOMAIN t.rows |->
                 [k \in Range(t.cols) \cup {c} |->
                     IF k = c THEN vals[i] ELSE t.rows[i][k]]]]

\* df.drop(columns=cs, errors='ignore')
DropCols(t, cs) ==
    [cols |-> SelectSeq(t.cols, LAMBDA c : c \notin cs),
     rows |-> [i \in DOMAIN t.rows |->
                 [k \in Range(t.cols) \ cs |-> t.rows[i][k]]]]

\* df[cs] for a list cs of existing columns
SelectCols(t, cs) ==
    [cols |-> cs,
     rows |-> [i \in DOMAIN t.rows |-> [k \in Range(cs) |-> t.rows[i][k]]]]

\* df.rename(columns={de: para}); a missing column is ignored
RenameCol(t, de, para) ==
    IF ~HasCol(t, de) THEN t
    ELSE [cols |-> [i \in DOMAIN t.cols |-> IF t.cols[i] = de THEN para ELSE t.cols[i]],
          rows |-> [i \in DOMAIN t.rows |->
                      [k \in (Range(t.cols) \ {de}) \cup {para} |->
                          IF k = para THEN t.rows[i][de] ELSE t.rows[i][k]]]]

\* df[mask] : the rows satisfying keep, in order
FilterRows(t, keep(_)) == [cols |-> t.cols, rows |-> SelectSeq(t.rows, keep)]

\* drop_duplicates().reset_index(drop=True): first occurrences, in order
DropDuplicates(rs) ==
    LET first(i) == \A j \in 1..(i - 1) : rs[j] # rs[i]
        idx == SelectSeq([i \in DOMAIN rs |-> i], first)
    IN  [k \in DOMAIN idx |-> rs[idx[k]]]

\* the distinct values of a sequence in first-occurrence order
Distinct(vs) == DropDuplicates(vs)

\* pd.merge(l, r, on=on, how='left'): every left row in order, once per matching
\* right row (NaN keys match NaN keys), or once with nulls when none matches;
\* a non-key column present on both sides gets the suffixes _x and _y
NullFor(c) == IF c \in {"id_instituicao", "id_produto", "id_fornecedor", "id_fabricante"}
              THEN "NaN" ELSE NULL

MergeLeft(l, r, on) ==
    LET onS == Range(on)
        overlap == (Range(l.cols) \cap Range(r.cols)) \ onS
        lname(c) == IF c \in overlap THEN c \o "_x" ELSE c
        rname(c) == IF c \in overlap THEN c \o "_y" ELSE c
        rcols == SelectSeq(r.cols, LAMBDA c : c \notin onS)
        cols == [i \in DOMAIN l.cols |-> lname(l.cols[i])]
                \o [i \in DOMAIN rcols |-> rname(rcols[i])]
        lsrc == [k \in {lname(c) : c \in Range(l.cols)} |->
                    CHOOSE c \in Range(l.cols) : lname(c) = k]
        rsrc == [k \in {rname(c) : c \in Range(rcols)} |->
                    CHOOSE c \in Range(rcols) : rname(c) = k]
        match(lr, rr) == \A c \in onS : lr[c] = rr[c]
        left(lr) == [k \in DOMAIN lsrc |-> lr[lsrc[k]]]
        join(lr, rr) == left(lr) @@ [k \in DOMAIN rsrc |-> rr[rsrc[k]]]
        alone(lr) == left(lr) @@ [k \in DOMAIN rsrc |-> NullFor(rsrc[k])]
        expand(lr) == LET hits == SelectSeq(r.rows, LAMBDA rr : match(lr, rr))
                      IN  IF Len(hits) = 0 THEN <<alone(lr)>>
                          ELSE [j \in DOMAIN hits |-> join(lr, hits[j])]
    IN  [cols |-> cols,
         rows |-> Flatten([i \in DOMAIN l.rows |-> expand(l.rows[i])])]

-----------------------------------------------------------------------------
(* Timestamps <<YYYYMMDDHH>> *)

Ano(ts) == ts[1] \div 1000000
Mes(ts) == (ts[1] \div 10000) % 100
Dia(ts) == (ts[1] \div 100) % 100
\* faulty variant of AnoMesDia: the day left out
AnoMesSemDia(ts) == ts[1] \div 10000
\* strftime('%Y%m%d').astype(int)
AnoMesDia(ts) == ts[1] \div 100
\* dt.to_period('M'), as the integer YYYYMM
AnoMes(ts) == ts[1] \div 10000
Trimestre(ts) == ((Mes(ts) - 1) \div 3) + 1

-----------------------------------------------------------------------------
(* src/dimensoes.py *)

LarguraChave == 5

RECURSIVE Zeros(_)
Zeros(n) == IF n <= 0 THEN "" ELSE "0" \o Zeros(n - 1)

\* f"{x:05d}": the decimal digits of x, padded on the left with zeros to a
\* minimum width of 5
Format05d(x) ==
    LET s == ToString(x)
    IN  IF Len(s) >= LarguraChave THEN s ELSE Zeros(LarguraChave - Len(s)) \o s

\* f"{prefixo}{x:05d}"
ChaveSubstituta(prefixo, x) == prefixo \o Format05d(x)

col_inst == <<"cnpj_instituicao", "nome_instituicao", "municipio_instituicao", "uf">>
col_prod == <<"codigo_br", "descricao_catmat", "generico", "unidade_fornecimento">>
col_forn == <<"cnpj_fornecedor", "fornecedor">>
col_fabr == <<"cnpj_fabricante", "fabricante">>
\* faulty variant of colunas_contexto: the two columns swapped
ContextoInvertido == <<"tipo_compra", "modalidade_compra">>
colunas_contexto == <<"modalidade_compra", "tipo_compra">>

\* steps 1-3 of _criar_dimensao: the dimension table of df_base
TabelaDimensao(df_base, colunas_atributos, chave_primaria, prefixo) ==
    LET df_dim == DropDuplicates(SelectCols(df_base, colunas_atributos).rows)
    IN  [cols |-> <<chave_primaria>> \o colunas_atributos,
         rows |-> [i \in DOMAIN df_dim |->
                     [k \in {chave_primaria} \cup Range(colunas_atributos) |->
                         IF k = chave_primaria THEN ChaveSubstituta(prefixo, i)
                         ELSE df_dim[i][k]]]]

\* faulty variant of IntegrarDimensao: the join made on the first attribute only
IntegrarPeloPrimeiroAtributo(df_base, df_dim, colunas_atributos) ==
    DropCols(MergeLeft(df_base, df_dim, <<colunas_atributos[1]>>),
             Range(colunas_atributos)
             \cup {colunas_atributos[i] \o "_x" : i \in DOMAIN colunas_atributos}
             \cup {colunas_atributos[i] \o "_y" : i \in DOMAIN colunas_atributos})

\* steps 4-5 of _criar_dimensao: left join on the attributes, attributes dropped
IntegrarDimensao(df_base, df_dim, colunas_atributos) ==
    DropCols(MergeLeft(df_base, df_dim, colunas_atributos), Range(colunas_atributos))

\* _criar_dimensao: [erro, fato, dim]; df_base[colunas_atributos] raises KeyError
\* when an attribute column is absent, and iloc[0] raises IndexError on an
\* empty dimension
CriarDimensao(df_base, colunas_atributos, chave_primaria, prefixo) ==
    IF ~HasAll(df_base, colunas_atributos)
    THEN [erro |-> "KeyError", fato |-> df_base, dim |-> TabelaVazia]
    ELSE LET df_dim == TabelaDimensao(df_base, colunas_atributos, chave_primaria, prefixo)
         IN  IF NRows(df_dim) = 0
             THEN [erro |-> "IndexError", fato |-> df_base, dim |-> TabelaVazia]
             ELSE [erro |-> "",
                   fato |-> IntegrarDimensao(df_base, df_dim, colunas_atributos),
                   dim |-> df_dim]

\* faulty variant of CriarDimensaoOpcional: built when the name column alone
\* is present, keyed on it
CriarDimensaoPeloNome(df_base, colunas_atributos, chave_primaria, prefixo) ==
    IF HasCol(df_base, colunas_atributos[2])
    THEN CriarDimensao(df_base, <<colunas_atributos[2]>>, chave_primaria, prefixo)
    ELSE [erro |-> "skip", fato |-> df_base, dim |-> TabelaVazia]

\* the optional dimensions: built only when every attribute column is present
CriarDimensaoOpcional(df_base, colunas_atributos, chave_primaria, prefixo) ==
    IF HasAll(df_base, colunas_atributos)
    THEN CriarDimensao(df_base, colunas_atributos, chave_primaria, prefixo)
    ELSE [erro |-> "skip", fato |-> df_base, dim |-> TabelaVazia]

\* dim_tempo_natural: the distinct valid values of compra with their key
DimTempoNatural(df_fato) ==
    LET nat == SelectSeq(DropDuplicates(Coluna(df_fato, "compra")),
                         LAMBDA v : v # NULL)
    IN  [cols |-> <<"compra", "data_completa", "id_tempo", "ano", "mes", "dia", "trimestre">>,
         rows |-> [i \in DOMAIN nat |->
                     [compra |-> nat[i], data_completa |-> nat[i],
                      id_tempo |-> <<AnoMesDia(nat[i])>>,
                      ano |-> Ano(nat[i]), mes |-> Mes(nat[i]),
                      dia |-> Dia(nat[i]), trimestre |-> Trimestre(nat[i])]]]

\* the try block of the time dimension: [fato, dim, chave, escrita]
DimensaoTempo(df_fato) ==
    IF ~HasCol(df_fato, "compra")
    THEN \* KeyError caught: nothing was changed yet
         [fato |-> df_fato, dim |-> TabelaVazia, chave |-> FALSE, escrita |-> FALSE]
    ELSE LET nat == DimTempoNatural(df_fato)
             dim_tempo == SelectCols(nat, <<"id_tempo", "data_completa", "ano",
                                            "mes", "dia", "trimestre">>)
             merged == MergeLeft(df_fato, SelectCols(nat, <<"compra", "id_tempo">>),
                                 <<"compra">>)
             renamed == RenameCol(merged, "compra", "data_compra")
         IN  IF NRows(dim_tempo) = 0
             THEN \* iloc[0] raises IndexError after the merge and the rename;
                  \* the handler renames data_compra back and nothing is written
                  [fato |-> RenameCol(renamed, "data_compra", "compra"),
                   dim |-> TabelaVazia, chave |-> TRUE, escrita |-> FALSE]
             ELSE [fato |-> renamed, dim |-> dim_tempo, chave |-> TRUE, escrita |-> TRUE]

\* step 6: dimension keys first, then the context columns, then the rest
ReordenarFato(df_fato, chaves_dimensao) ==
    LET chaves_finais == SelectSeq(chaves_dimensao, LAMBDA c : HasCol(df_fato, c))
        contexto == SelectSeq(colunas_contexto, LAMBDA c : HasCol(df_fato, c))
        resto == SelectSeq(df_fato.cols,
                           LAMBDA c : c \notin Range(chaves_finais) \cup Range(colunas_contexto))
    IN  SelectCols(df_fato, chaves_finais \o contexto \o resto)

\* faulty variant of Emitida: the dimension is written without its first row
EmitidaSemAPrimeiraLinha(nome, r) ==
    IF r.erro = ""
    THEN <<[nome |-> nome, tabela |-> [cols |-> r.dim.cols, rows |-> Tail(r.dim.rows)]]>>
    ELSE <<>>

Emitida(nome, r) == IF r.erro = "" THEN <<[nome |-> nome, tabela |-> r.dim]>> ELSE <<>>
ChaveDe(chave, r) == IF r.erro = "" THEN <<chave>> ELSE <<>>
Falhou(r) == r.erro \in {"KeyError", "IndexError"}

\* what criar_e_integrar_dimensoes leaves behind, from the results r1..r4 of the
\* four _criar_dimensao calls and the result rt of the time dimension
ResultadoDimensoes(df_fato, r1, r2, r3, r4, rt) ==
    LET d1 == Emitida("instituicao", r1)
        d2 == d1 \o Emitida("produto", r2)
        d3 == d2 \o Emitida("fornecedor", r3)
        d4 == d3 \o Emitida("fabricante", r4)
        dt == d4 \o (IF rt.escrita THEN <<[nome |-> "tempo", tabela |-> rt.dim]>> ELSE <<>>)
        chaves == <<"id_pedido">> \o ChaveDe("id_instituicao", r1)
                  \o ChaveDe("id_produto", r2) \o ChaveDe("id_fornecedor", r3)
                  \o ChaveDe("id_fabricante", r4)
                  \o (IF rt.chave THEN <<"id_tempo">> ELSE <<>>)
    IN  IF Falhou(r1) THEN [erro |-> r1.erro, df |-> df_fato, dims |-> <<>>, chaves |-> <<>>]
        ELSE IF Falhou(r2) THEN [erro |-> r2.erro, df |-> r1.fato, dims |-> d1, chaves |-> <<>>]
        ELSE IF Falhou(r3) THEN [erro |-> r3.erro, df |-> r2.fato, dims |-> d2, chaves |-> <<>>]
        ELSE IF Falhou(r4) THEN [erro |-> r4.erro, df |-> r3.fato, dims |-> d3, chaves |-> <<>>]
        ELSE [erro |-> "", df |-> ReordenarFato(rt.fato, chaves),
              dims |-> dt, chaves |-> chaves]

\* criar_e_integrar_dimensoes: [erro, df, dims, chaves]; each dimension is built
\* from the fact table the previous one returned
CriarEIntegrarDimensoes(df_fato) ==
    Seja(CriarDimensao(df_fato, col_inst, "id_instituicao", "Ins"), LAMBDA r1 :
    Seja(CriarDimensao(r1.fato, col_prod, "id_produto", "Pro"), LAMBDA r2 :
    Seja(CriarDimensaoOpcional(r2.fato, col_forn, "id_fornecedor", "For"), LAMBDA r3 :
    Seja(CriarDimensaoOpcional(r3.fato, col_fabr, "id_fabricante", "Fab"), LAMBDA r4 :
    Seja(DimensaoTempo(r4.fato), LAMBDA rt :
         ResultadoDimensoes(df_fato, r1, r2, r3, r4, rt))))))

-----------------------------------------------------------------------------
(* Text as sequences of characters *)

\* the characters the model uses, in code-point order
Alfabeto == <<" ", "-", ".", "/", "0", "1", "2", "3", "4", "5", "6", "7", "8", "9",
              "A", "F", "L", "M", "N", "O", "R", "T", "_", "a">>
Digitos == <<"0", "1", "2", "3", "4", "5", "6", "7", "8", "9">>

CodePoint(c) == CHOOSE i \in DOMAIN Alfabeto : Alfabeto[i] = c
EhDigito(c) == c \in Range(Digitos)
EhEspaco(c) == c = " "

RECURSIVE LStrip(_)
LStrip(s) == IF Len(s) > 0 /\ EhEspaco(Head(s)) THEN LStrip(Tail(s)) ELSE s

RECURSIVE RStrip(_)
RStrip(s) == IF Len(s) > 0 /\ EhEspaco(s[Len(s)])
             THEN RStrip(SubSeq(s, 1, Len(s) - 1)) ELSE s

\* str.strip()
Strip(s) == RStrip(LStrip(s))

RECURSIVE StrNat(_)
StrNat(n) == IF n < 10 THEN <<Digitos[n + 1]>>
             ELSE Append(StrNat(n \div 10), Digitos[(n % 10) + 1])

\* str() of an integer
StrInt(n) == IF n < 0 THEN <<"-">> \o StrNat(-n) ELSE StrNat(n)

\* str() of a timestamp: its digits, "NaT" for a missing one
StrData(ts) == IF ts = NULL THEN <<"N", "a", "T">> ELSE StrNat(ts[1])

\* lexicographic order of two texts
RECURSIVE TextoLeq(_, _)
TextoLeq(a, b) ==
    IF Len(a) = 0 THEN TRUE
    ELSE IF Len(b) = 0 THEN FALSE
    ELSE IF Head(a) = Head(b) THEN TextoLeq(Tail(a), Tail(b))
    ELSE CodePoint(Head(a)) < CodePoint(Head(b))

-----------------------------------------------------------------------------
(* src/modelagem_dim.py: calcular_zscore_risco *)

colunas_zscore == <<"compra", "codigo_br", "preco_total", "qtd_itens_comprados">>

EscalaZ == 100

\* np.where(qtd > 0, preco_total / qtd, 0)
PmpIndividual(row) ==
    IF row["qtd_itens_comprados"] > 0
    THEN Rat(row["preco_total"], row["qtd_itens_comprados"])
    ELSE RInt(0)

\* df['compra'].dt.year, NaN for NaT
AnoCompra(row) == IF row["compra"] = NULL THEN NULL ELSE <<Ano(row["compra"])>>

\* faulty variant of GrupoZ: the purchase year left out of the group key
GrupoSoPorCodigo(t, i) ==
    SelectSeq(t.rows, LAMBDA r : r["compra"] # NULL /\ t.rows[i]["compra"] # NULL
                                  /\ r["codigo_br"] = t.rows[i]["codigo_br"])

\* the members of the (codigo_br, ano_compra) group of row i; groupby drops
\* the rows whose key is null
GrupoZ(t, i) ==
    SelectSeq(t.rows, LAMBDA r : r["compra"] # NULL /\ t.rows[i]["compra"] # NULL
                                  /\ r["codigo_br"] = t.rows[i]["codigo_br"]
                                  /\ AnoCompra(r) = AnoCompra(t.rows[i]))

Media(qs) == RDiv(RSum(qs), RInt(Len(qs)))

\* faulty variant of Variancia: the population variance (ddof = 0)
VarianciaPopulacional(qs) ==
    LET m == Media(qs)
        sq == [i \in DOMAIN qs |-> RMul(RSub(qs[i], m), RSub(qs[i], m))]
    IN  RDiv(RSum(sq), RInt(Len(qs)))

\* sample variance (ddof = 1); undefined for fewer than two values
Variancia(qs) ==
    LET m == Media(qs)
        sq == [i \in DOMAIN qs |-> RMul(RSub(qs[i], m), RSub(qs[i], m))]
    IN  RDiv(RSum(sq), RInt(Len(qs) - 1))

\* transform('mean'): NaN for a row outside every group
PmpMedio(t, i) ==
    LET g == GrupoZ(t, i)
    IN  IF Len(g) = 0 THEN NULL ELSE Media([k \in DOMAIN g |-> PmpIndividual(g[k])])

\* transform('std').fillna(0), as the variance whose square root it is
PmpVariancia(t, i) ==
    LET g == GrupoZ(t, i)
    IN  IF Len(g) < 2 THEN RInt(0)
        ELSE Variancia([k \in DOMAIN g |-> PmpIndividual(g[k])])

\* the square root of a rational q, kept exactly
Raiz(q) == <<q[1], q[2], 2>>

\* the largest integer in lo..hi whose square is at most n
RECURSIVE RaizInteira(_, _, _)
RaizInteira(n, lo, hi) ==
    IF lo >= hi THEN lo
    ELSE LET mid == (lo + hi + 1) \div 2
         IN  IF mid * mid <= n THEN RaizInteira(n, mid, hi)
             ELSE RaizInteira(n, lo, mid - 1)

\* the non-negative integer nearest to sqrt(q), ties to even
RaizArredondada(q) ==
    LET n == RFloor(q)
        m == RaizInteira(n, 0, n)
        lim == (2 * m + 1) * (2 * m + 1)
    IN  IF 4 * q[1] < lim * q[2] THEN m
        ELSE IF 4 * q[1] = lim * q[2] THEN (IF m % 2 = 0 THEN m ELSE m + 1)
        ELSE m + 1

\* np.where(std > 0, (pmp - mean) / std, 0).round(2)
ScoreZ(t, i) ==
    LET v == PmpVariancia(t, i)
        x == PmpIndividual(t.rows[i])
    IN  IF v[1] > 0
        THEN LET d == RSub(x, PmpMedio(t, i))
                 z2 == RDiv(RMul(d, d), v)
                 k == RaizArredondada(RMul(RInt(EscalaZ * EscalaZ), z2))
             IN  Rat(IF d[1] < 0 THEN -k ELSE k, EscalaZ)
        ELSE RInt(0)

\* faulty variant of calcular_zscore_risco: no check of the required columns,
\* the score column is always written
ZScoreSemVerificarColunas(t) ==
    SetCol(t, "score_z_risco", [i \in DOMAIN t.rows |-> RInt(0)])

calcular_zscore_risco(t) ==
    IF ~HasAll(t, colunas_zscore) THEN t
    ELSE LET idx == DOMAIN t.rows
             t1 == SetCol(t, "ano_compra", [i \in idx |-> AnoCompra(t.rows[i])])
             t2 == SetCol(t1, "pmp_individual", [i \in idx |-> PmpIndividual(t.rows[i])])
             t3 == SetCol(t2, "pmp_medio", [i \in idx |-> PmpMedio(t, i)])
             t4 == SetCol(t3, "pmp_desvio_padrao", [i \in idx |-> Raiz(PmpVariancia(t, i))])
         IN  SetCol(t4, "score_z_risco", [i \in idx |-> ScoreZ(t, i)])

-----------------------------------------------------------------------------
(* src/modelagem_dim.py: gerar_id_pedido *)

colunas_hash == <<"cnpj_instituicao", "compra", "codigo_br", "cnpj_fornecedor",
                  "qtd_itens_comprados", "preco_unitario", "cnpj_fabricante",
                  "insercao", "unidade_fornecimento_capacidade", "capacidade",
                  "unidade_medida">>
\* faulty variant of colunas_para_dropar: the unit of measure left in place
ColunasResiduaisSemUnidade == {"unidade_fornecimento_capacidade", "capacidade"}

colunas_para_dropar == {"unidade_fornecimento_capacidade", "capacidade", "unidade_medida"}

TamanhoRaizCnpj == 8

\* faulty variant of RaizCnpj: every digit of the CNPJ kept
CnpjSoDigitos(v) == SelectSeq(Strip(v), EhDigito)

\* re.sub(r'\D', '', str(v).strip())[:8]
RaizCnpj(v) ==
    LET d == SelectSeq(Strip(v), EhDigito)
    IN  SubSeq(d, 1, IF Len(d) < TamanhoRaizCnpj THEN Len(d) ELSE TamanhoRaizCnpj)

\* the string each hash-input column contributes to the key
CampoHash(col, v) ==
    IF col \in {"cnpj_instituicao", "cnpj_fornecedor", "cnpj_fabricante"} THEN RaizCnpj(v)
    ELSE IF col \in {"compra", "insercao"} THEN Strip(StrData(v))
    ELSE IF col \in {"qtd_itens_comprados", "preco_unitario", "capacidade"}
         THEN Strip(StrInt(v))
    ELSE Strip(v)

RECURSIVE JuntarComSublinhado(_)
JuntarComSublinhado(ps) ==
    IF Len(ps) = 1 THEN Head(ps)
    ELSE Head(ps) \o <<"_">> \o JuntarComSublinhado(Tail(ps))

ChaveConcatenada(row) ==
    JuntarComSublinhado([i \in DOMAIN colunas_hash |->
                            CampoHash(colunas_hash[i], row[colunas_hash[i]])])

\* hashlib.md5(...).hexdigest(), taken as injective on its input
Md5Hex(s) == [md5 |-> s]

calcular_hash_pedido(row) == Md5Hex(ChaveConcatenada(row))

\* df['id_pedido'] = df.apply(calcular_hash_pedido, axis=1)
ComIdPedido(t) ==
    SetCol(t, "id_pedido", [i \in DOMAIN t.rows |-> calcular_hash_pedido(t.rows[i])])

\* ascending order of sort_values, missing values last
DataLeq(a, b) == b = NULL \/ (a # NULL /\ a[1] <= b[1])

\* the row orders sort_values may return: by=['compra', 'codigo_br'] is a
\* stable lexicographic sort; by=['compra'] alone sorts with quicksort, which
\* leaves the order of equal keys unspecified
Permutacoes(n) == {p \in [1..n -> 1..n] : \A i, j \in 1..n : i # j => p[i] # p[j]}

\* faulty variant of OrdensPossiveis: sorted by the purchase date alone
OrdensSoPorData(t) ==
    LET n == NRows(t)
        menorIgual(a, b) ==
            IF t.rows[a]["compra"] # t.rows[b]["compra"]
            THEN DataLeq(t.rows[a]["compra"], t.rows[b]["compra"])
            ELSE a <= b
    IN  IF ~HasCol(t, "compra") THEN {[i \in 1..n |-> i]}
        ELSE {p \in Permutacoes(n) : \A i, j \in 1..n : i < j => menorIgual(p[i], p[j])}

OrdensPossiveis(t) ==
    LET n == NRows(t)
        r(i) == t.rows[i]
        ambas == HasCol(t, "codigo_br")
        menorIgual(a, b) ==
            IF r(a)["compra"] # r(b)["compra"] THEN DataLeq(r(a)["compra"], r(b)["compra"])
            ELSE IF ~ambas THEN TRUE
            ELSE IF r(a)["codigo_br"] # r(b)["codigo_br"]
                 THEN TextoLeq(r(a)["codigo_br"], r(b)["codigo_br"])
            ELSE a <= b
    IN  IF ~HasCol(t, "compra") THEN {[i \in 1..n |-> i]}
        ELSE {p \in Permutacoes(n) : \A i, j \in 1..n : i < j => menorIgual(p[i], p[j])}

Reordenar(t, p) == [cols |-> t.cols, rows |-> [i \in DOMAIN t.rows |-> t.rows[p[i]]]]

\* columns = ['id_pedido'] + the others
IdPedidoPrimeiro(t) ==
    IF HasCol(t, "id_pedido")
    THEN SelectCols(t, <<"id_pedido">> \o SelectSeq(t.cols, LAMBDA c : c # "id_pedido"))
    ELSE t

\* faulty variant of gerar_id_pedido: the z-score is not computed
gerar_id_pedido_sem_zscore(t, p) ==
    IF NRows(t) = 0 THEN t
    ELSE LET t1 == IF HasAll(t, colunas_hash) THEN ComIdPedido(t) ELSE t
             t2 == DropCols(t1, colunas_para_dropar)
         IN  IdPedidoPrimeiro(Reordenar(t2, p))

\* gerar_id_pedido with the row order p chosen by the sort
gerar_id_pedido(t, p) ==
    IF NRows(t) = 0 THEN t
    ELSE LET t1 == IF HasAll(t, colunas_hash) THEN ComIdPedido(t) ELSE t
             t2 == DropCols(t1, colunas_para_dropar)
             t3 == calcular_zscore_risco(t2)
         IN  IdPedidoPrimeiro(Reordenar(t3, p))

\* the orders the sort inside gerar_id_pedido can produce for t
OrdensGerarIdPedido(t) ==
    OrdensPossiveis(calcular_zscore_risco(DropCols(t, colunas_para_dropar)))

-----------------------------------------------------------------------------
(* groupby helpers: a group key that is null is dropped (dropna=True) *)

EhNulo(c, v) == v = NullFor(c)

\* faulty variant of ChavesDeGrupo: one group per row instead of one per key
ChavesDeGrupoPorLinha(t, c) == SelectSeq(Coluna(t, c), LAMBDA v : ~EhNulo(c, v))

\* the distinct non-null values of column c; the aggregates below are only
\* merged back by key, so the order of the groups is not observable
ChavesDeGrupo(t, c) == Distinct(SelectSeq(Coluna(t, c), LAMBDA v : ~EhNulo(c, v)))

LinhasDoGrupo(t, c, v) == SelectSeq(t.rows, LAMBDA r : r[c] = v)

-----------------------------------------------------------------------------
(* src/modelagem_dim.py: calcular_risco_intermitencia *)

COLUNA_DATA == "data_compra"

MesCompra(row) == IF row[COLUNA_DATA] = NULL THEN NULL ELSE <<AnoMes(row[COLUNA_DATA])>>

\* groupby('id_produto')['mes_compra'].nunique()
MesesComprados(t, produto) ==
    Cardinality({MesCompra(r) : r \in Range(LinhasDoGrupo(t, "id_produto", produto))}
                \ {NULL})

MesesValidos(t) == {MesCompra(t.rows[i])[1] : i \in {j \in DOMAIN t.rows :
                                                      t.rows[j][COLUNA_DATA] # NULL}}

MinDe(S) == CHOOSE x \in S : \A y \in S : x <= y
MaxDe(S) == CHOOSE x \in S : \A y \in S : x >= y

\* faulty variant of PeriodoTotalMeses: the last month of the window not counted
PeriodoSemUltimoMes(mes_min, mes_max) ==
    ((mes_max \div 100) - (mes_min \div 100)) * 12 + (mes_max % 100) - (mes_min % 100)

\* (mes_max.year - mes_min.year) * 12 + mes_max.month - mes_min.month + 1
PeriodoTotalMeses(mes_min, mes_max) ==
    ((mes_max \div 100) - (mes_min \div 100)) * 12
    + (mes_max % 100) - (mes_min % 100) + 1

\* np.where(periodo > 0, 1 - meses / periodo, 0)
RiscoIntermitencia(meses, periodo) ==
    IF periodo > 0 THEN RSub(RInt(1), Rat(meses, periodo)) ELSE RInt(0)

TabelaIntermitencia(t) ==
    LET prods == ChavesDeGrupo(t, "id_produto")
        periodo == PeriodoTotalMeses(MinDe(MesesValidos(t)), MaxDe(MesesValidos(t)))
    IN  [cols |-> <<"id_produto", "Risco_Intermitencia", "Meses_Comprados_Historico">>,
         rows |-> [i \in DOMAIN prods |->
                     [id_produto |-> prods[i],
                      Risco_Intermitencia |->
                          RiscoIntermitencia(MesesComprados(t, prods[i]), periodo),
                      Meses_Comprados_Historico |-> RInt(MesesComprados(t, prods[i]))]]]

\* [erro, df]
calcular_risco_intermitencia(t) ==
    IF ~HasCol(t, COLUNA_DATA) THEN [erro |-> "", df |-> t]
    ELSE LET t1 == SetCol(t, "mes_compra", [i \in DOMAIN t.rows |-> MesCompra(t.rows[i])])
         IN  IF ~HasCol(t1, "id_produto") THEN [erro |-> "KeyError", df |-> t1]
             ELSE IF MesesValidos(t) = {} THEN [erro |-> "", df |-> t1]
             ELSE [erro |-> "",
                   df |-> DropCols(MergeLeft(t1, TabelaIntermitencia(t), <<"id_produto">>),
                                   {"mes_compra"})]

-----------------------------------------------------------------------------
(* src/modelagem_dim.py: calcular_concentracao_fornecedor *)

gasto_col == "preco_total"

Gasto(rs) == ISum([i \in DOMAIN rs |-> rs[i][gasto_col]])

\* groupby(['id_produto', 'id_fornecedor']).sum() restricted to one product:
\* one [id_fornecedor, preco_total] per supplier, in ascending key order
GastoPorFornecedor(t, produto) ==
    LET rs == SelectSeq(LinhasDoGrupo(t, "id_produto", produto),
                        LAMBDA r : ~EhNulo("id_fornecedor", r["id_fornecedor"]))
        forns == {r["id_fornecedor"] : r \in Range(rs)}
        n == NRows(t)
        ordem == SelectSeq([k \in 1..n |-> ChaveSubstituta("For", k)],
                           LAMBDA f : f \in forns)
    IN  [i \in DOMAIN ordem |->
            [id_fornecedor |-> ordem[i],
             preco_total |-> Gasto(SelectSeq(rs, LAMBDA r : r["id_fornecedor"] = ordem[i]))]]

\* faulty variant of IdxMax: the first row holding the minimum
IdxMenorGasto(gs) == CHOOSE i \in DOMAIN gs :
                         /\ \A j \in DOMAIN gs : gs[j].preco_total >= gs[i].preco_total
                         /\ \A j \in 1..(i - 1) : gs[j].preco_total > gs[i].preco_total

\* idxmax: the first row holding the maximum
IdxMax(gs) == CHOOSE i \in DOMAIN gs :
                  /\ \A j \in DOMAIN gs : gs[j].preco_total <= gs[i].preco_total
                  /\ \A j \in 1..(i - 1) : gs[j].preco_total < gs[i].preco_total

\* faulty variant of GastoFornPrincipal: the spend at the supplier of the
\* product's first row
GastoDoPrimeiroFornecedor(t, produto) ==
    LET rs == LinhasDoGrupo(t, "id_produto", produto)
    IN  RInt(Gasto(SelectSeq(rs, LAMBDA r : r["id_fornecedor"] = rs[1]["id_fornecedor"])))

\* Gasto_Forn_Principal, NaN when the product has no supplier row
GastoFornPrincipal(t, produto) ==
    LET gs == GastoPorFornecedor(t, produto)
    IN  IF Len(gs) = 0 THEN NULL ELSE RInt(gs[IdxMax(gs)].preco_total)

\* faulty variant of PercentualGastoUnicoForn: the ratio taken upside down
PercentualInvertido(principal, total) ==
    IF total > 0
    THEN (IF principal = NULL THEN NULL ELSE RDiv(RInt(total), principal))
    ELSE RInt(0)

\* np.where(total > 0, principal / total, 0)
PercentualGastoUnicoForn(principal, total) ==
    IF total > 0
    THEN (IF principal = NULL THEN NULL ELSE RDiv(principal, RInt(total)))
    ELSE RInt(0)

TabelaConcentracao(t) ==
    LET prods == ChavesDeGrupo(t, "id_produto")
    IN  [cols |-> <<"id_produto", "%_Gasto_Unico_Forn">>,
         rows |-> [i \in DOMAIN prods |->
                     [k \in {"id_produto", "%_Gasto_Unico_Forn"} |->
                         IF k = "id_produto" THEN prods[i]
                         ELSE PercentualGastoUnicoForn(
                                  GastoFornPrincipal(t, prods[i]),
                                  Gasto(LinhasDoGrupo(t, "id_produto", prods[i])))]]]

\* [erro, df]
calcular_concentracao_fornecedor(t) ==
    IF ~HasAll(t, <<"id_produto", gasto_col, "id_fornecedor">>)
    THEN [erro |-> "KeyError", df |-> t]
    ELSE [erro |-> "", df |-> MergeLeft(t, TabelaConcentracao(t), <<"id_produto">>)]

-----------------------------------------------------------------------------
(* src/modelagem_dim.py: calcular_indice_priorizacao *)

colunas_priorizacao == <<"id_produto", "preco_total", "score_z_risco">>

EscalaIndice == 10000

\* np.abs(x).mean() of the product's z-scores
RiscoMedio(t, produto) ==
    LET rs == LinhasDoGrupo(t, "id_produto", produto)
    IN  Media([i \in DOMAIN rs |-> RAbs(rs[i]["score_z_risco"])])

DemandaValor(t, produto) == RInt(Gasto(LinhasDoGrupo(t, "id_produto", produto)))

RMaxDe(qs) == CHOOSE x \in Range(qs) : \A y \in Range(qs) : RLeq(y, x)
RMinDe(qs) == CHOOSE x \in Range(qs) : \A y \in Range(qs) : RLeq(x, y)

\* faulty variant of Normalizado: 1 for every product when max = min
NormalizadoComUm(v, qs) ==
    LET mx == RMaxDe(qs)
        mn == RMinDe(qs)
    IN  IF RLt(RInt(0), RSub(mx, mn)) THEN RDiv(RSub(v, mn), RSub(mx, mn)) ELSE RInt(1)

\* min-max scaling; 0 for every product when max = min
Normalizado(v, qs) ==
    LET mx == RMaxDe(qs)
        mn == RMinDe(qs)
    IN  IF RLt(RInt(0), RSub(mx, mn)) THEN RDiv(RSub(v, mn), RSub(mx, mn)) ELSE RInt(0)

\* faulty variant of IndicePriorizacao: the two halves not weighted
IndiceSemPesos(rn, dn) == RRound(RAdd(rn, dn), EscalaIndice)

\* (risco_normalizado * 0.5 + demanda_normalizada * 0.5).round(4)
IndicePriorizacao(rn, dn) ==
    RRound(RAdd(RMul(rn, Rat(1, 2)), RMul(dn, Rat(1, 2))), EscalaIndice)

TabelaPrioridade(t) ==
    LET prods == ChavesDeGrupo(t, "id_produto")
        riscos == [i \in DOMAIN prods |-> RiscoMedio(t, prods[i])]
        demandas == [i \in DOMAIN prods |-> DemandaValor(t, prods[i])]
    IN  [cols |-> <<"id_produto", "indice_priorizacao", "demanda_valor">>,
         rows |-> [i \in DOMAIN prods |->
                     [id_produto |-> prods[i],
                      indice_priorizacao |->
                          IndicePriorizacao(Normalizado(riscos[i], riscos),
                                            Normalizado(demandas[i], demandas)),
                      demanda_valor |-> demandas[i]]]]

\* Series.fillna(0)
FillNa0(t, c) ==
    SetCol(t, c, [i \in DOMAIN t.rows |->
                     IF t.rows[i][c] = NULL THEN RInt(0) ELSE t.rows[i][c]])

\* [erro, df]; after the merge the two new columns are read back by name
calcular_indice_priorizacao(t) ==
    IF ~HasAll(t, colunas_priorizacao) THEN [erro |-> "", df |-> t]
    ELSE LET m == MergeLeft(t, TabelaPrioridade(t), <<"id_produto">>)
         IN  IF ~HasAll(m, <<"indice_priorizacao", "demanda_valor">>)
             THEN [erro |-> "KeyError", df |-> t]
             ELSE [erro |-> "", df |-> FillNa0(FillNa0(m, "indice_priorizacao"),
                                               "demanda_valor")]

-----------------------------------------------------------------------------
(* src/modelagem_dim.py: gerar_mini_fato_radar_enriquecida *)

contexto_benchmark == <<"id_produto", "id_instituicao", "id_tempo">>
required_cols == contexto_benchmark \o
                 <<"id_pedido", "id_fornecedor", "id_fabricante", "preco_unitario",
                   "preco_total", "qtd_itens_comprados">>
colunas_radar == <<"id_pedido", "id_produto", "id_instituicao", "id_fabricante",
                   "id_fornecedor", "id_tempo", "preco_unitario",
                   "PMP_Mediano_Dinamico", "Desvio_%_Oportunidade", "Economia_por_Linha">>

\* faulty variant of LinhaValida: every row passes
LinhaSempreValida(row) == TRUE

\* the filter of df_limpo
LinhaValida(row) == row["preco_total"] > 0 /\ row["qtd_itens_comprados"] > 0

\* ascending sort of a sequence of integers
RECURSIVE Ordenar(_)
Ordenar(ns) ==
    IF Len(ns) = 0 THEN <<>>
    ELSE LET i == CHOOSE k \in DOMAIN ns : \A j \in DOMAIN ns : ns[k] <= ns[j]
         IN  <<ns[i]>> \o Ordenar(SubSeq(ns, 1, i - 1) \o SubSeq(ns, i + 1, Len(ns)))

Mediana(ns) ==
    LET o == Ordenar(ns)
        n == Len(o)
    IN  IF n % 2 = 1 THEN RInt(o[(n + 1) \div 2])
        ELSE Rat(o[n \div 2] + o[(n \div 2) + 1], 2)

MesmoContexto(a, b) == \A i \in DOMAIN contexto_benchmark :
                           a[contexto_benchmark[i]] = b[contexto_benchmark[i]]

ContextoNulo(r) == \E i \in DOMAIN contexto_benchmark :
                       EhNulo(contexto_benchmark[i], r[contexto_benchmark[i]])

\* faulty variant of TabelaBenchmark: one benchmark row per purchase instead of
\* one per context
TabelaBenchmarkSemAgrupar(limpo) ==
    LET ctx == SelectCols(FilterRows(limpo, LAMBDA r : ~ContextoNulo(r)),
                          contexto_benchmark).rows
    IN  [cols |-> contexto_benchmark \o <<"PMP_Mediano_Dinamico">>,
         rows |-> [i \in DOMAIN ctx |->
                     [k \in Range(contexto_benchmark) \cup {"PMP_Mediano_Dinamico"} |->
                         IF k # "PMP_Mediano_Dinamico" THEN ctx[i][k]
                         ELSE RInt(limpo.rows[i]["preco_unitario"])]]]

\* groupby(contexto_benchmark).agg(median): one row per context without nulls
TabelaBenchmark(limpo) ==
    LET ctx == Distinct(SelectCols(FilterRows(limpo, LAMBDA r : ~ContextoNulo(r)),
                                   contexto_benchmark).rows)
    IN  [cols |-> contexto_benchmark \o <<"PMP_Mediano_Dinamico">>,
         rows |-> [i \in DOMAIN ctx |->
                     [k \in Range(contexto_benchmark) \cup {"PMP_Mediano_Dinamico"} |->
                         IF k # "PMP_Mediano_Dinamico" THEN ctx[i][k]
                         ELSE LET g == SelectSeq(limpo.rows,
                                                 LAMBDA r : MesmoContexto(r, ctx[i]))
                              IN  Mediana([j \in DOMAIN g |-> g[j]["preco_unitario"]])]]]

\* (preco_unitario - benchmark) * qtd, NaN when the benchmark is NaN
EconomiaPorLinha(row) ==
    IF row["PMP_Mediano_Dinamico"] = NULL THEN NULL
    ELSE RMul(RSub(RInt(row["preco_unitario"]), row["PMP_Mediano_Dinamico"]),
              RInt(row["qtd_itens_comprados"]))

\* np.where(benchmark > 0, (preco_unitario - benchmark) / benchmark, 0)
DesvioOportunidade(row) ==
    LET b == row["PMP_Mediano_Dinamico"]
    IN  IF b # NULL /\ b[1] > 0 THEN RDiv(RSub(RInt(row["preco_unitario"]), b), b)
        ELSE RInt(0)

gerar_mini_fato_radar_enriquecida(df_fato) ==
    IF ~HasAll(df_fato, required_cols) THEN TabelaVazia
    ELSE LET df_limpo == FilterRows(df_fato, LinhaValida)
         IN  IF NRows(df_limpo) = 0 THEN TabelaVazia
             ELSE LET m == MergeLeft(df_limpo, TabelaBenchmark(df_limpo), contexto_benchmark)
                      m1 == SetCol(m, "Economia_por_Linha",
                                   [i \in DOMAIN m.rows |-> EconomiaPorLinha(m.rows[i])])
                      m2 == SetCol(m1, "Desvio_%_Oportunidade",
                                   [i \in DOMAIN m.rows |-> DesvioOportunidade(m.rows[i])])
                      sel == SelectCols(m2, colunas_radar)
                  IN  RenameCol(RenameCol(sel, "preco_unitario", "PMP_Pago_Linha"),
                                "PMP_Mediano_Dinamico", "PMP_Benchmark_Referencia")

-----------------------------------------------------------------------------
(* The consolidated records ingestion hands to main: sample values *)

CNPJ_A  == <<"1", "2", "3", "4", "5", "6", "7", "8", "0", "0", "0", "1", "9", "9">>
\* another establishment of the same company: same 8-digit root
CNPJ_A2 == <<"1", "2", "3", "4", "5", "6", "7", "8", "0", "0", "0", "2", "8", "8">>
\* CNPJ_A as the source writes it when it is punctuated
CNPJ_AP == <<"1", "2", ".", "3", "4", "5", ".", "6", "7", "8", "/", "0", "0", "0", "1",
             "-", "9", "9">>
CNPJ_B  == <<"9", "8", "7", "6", "5", "4", "3", "2", "0", "0", "0", "1", "1", "0">>

T_JAN15     == <<2024011500>>
T_JAN15_12H == <<2024011512>>
T_FEV10     == <<2024021000>>
T_DEZ20     == <<2023122000>>

Instituicoes ==
    <<[cnpj |-> CNPJ_A, nome |-> "HOSPITAL A", municipio |-> "RECIFE", uf |-> "PE"],
      [cnpj |-> CNPJ_B, nome |-> "HOSPITAL B", municipio |-> "NATAL", uf |-> "RN"],
      [cnpj |-> CNPJ_A, nome |-> "HOSPITAL A", municipio |-> "OLINDA", uf |-> "PE"]>>

Produtos ==
    <<[codigo |-> <<"1", "2", "3">>, descricao |-> "DIPIRONA", generico |-> "SIM",
       unidade |-> "COMPRIMIDO"],
      [codigo |-> <<"4", "5">>, descricao |-> "INSULINA", generico |-> "NAO",
       unidade |-> "FRASCO"]>>

Fornecedores == <<[cnpj |-> CNPJ_A, nome |-> "FORN A"], [cnpj |-> CNPJ_B, nome |-> "FORN B"]>>
Fabricantes  == <<[cnpj |-> CNPJ_B, nome |-> "FAB B"], [cnpj |-> CNPJ_A, nome |-> "FAB A"]>>

\* the columns of a consolidated record, in the order ingestion leaves them
ColunasConsolidado ==
    <<"ano_compra", "nome_instituicao", "cnpj_instituicao", "municipio_instituicao",
      "uf", "compra", "insercao", "codigo_br", "descricao_catmat", "unidade_fornecimento",
      "unidade_fornecimento_capacidade", "generico", "anvisa", "modalidade_compra",
      "tipo_compra", "capacidade", "unidade_medida", "cnpj_fornecedor", "fornecedor",
      "cnpj_fabricante", "fabricante", "qtd_itens_comprados", "preco_unitario",
      "preco_total">>

LinhaBase ==
    [ano_compra |-> <<2024>>,
     nome_instituicao |-> Instituicoes[1].nome, cnpj_instituicao |-> Instituicoes[1].cnpj,
     municipio_instituicao |-> Instituicoes[1].municipio, uf |-> Instituicoes[1].uf,
     compra |-> T_JAN15, insercao |-> T_FEV10,
     codigo_br |-> Produtos[1].codigo, descricao_catmat |-> Produtos[1].descricao,
     unidade_fornecimento |-> Produtos[1].unidade,
     unidade_fornecimento_capacidade |-> <<"F", "R">>,
     generico |-> Produtos[1].generico, anvisa |-> "1",
     modalidade_compra |-> "PREGAO", tipo_compra |-> "ADMINISTRATIVA",
     capacidade |-> 10, unidade_medida |-> <<"M", "L">>,
     cnpj_fornecedor |-> Fornecedores[1].cnpj, fornecedor |-> Fornecedores[1].nome,
     cnpj_fabricante |-> Fabricantes[1].cnpj, fabricante |-> Fabricantes[1].nome,
     qtd_itens_comprados |-> 1, preco_unitario |-> 10, preco_total |-> 10]

ComInstituicao(row, e) ==
    [row EXCEPT !.cnpj_instituicao = e.cnpj, !.nome_instituicao = e.nome,
                !.municipio_instituicao = e.municipio, !.uf = e.uf]
ComProduto(row, e) ==
    [row EXCEPT !.codigo_br = e.codigo, !.descricao_catmat = e.descricao,
                !.generico = e.generico, !.unidade_fornecimento = e.unidade]
ComFornecedor(row, e) == [row EXCEPT !.cnpj_fornecedor = e.cnpj, !.fornecedor = e.nome]
ComFabricante(row, e) == [row EXCEPT !.cnpj_fabricante = e.cnpj, !.fabricante = e.nome]
ComCompra(row, ts) == [row EXCEPT !.compra = ts]
ComValores(row, qtd, unit, total) ==
    [row EXCEPT !.qtd_itens_comprados = qtd, !.preco_unitario = unit, !.preco_total = total]

\* the consolidated table of the given records, without the columns in ausentes
Consolidado(linhas, ausentes) ==
    DropCols([cols |-> ColunasConsolidado, rows |-> linhas], ausentes)

\* all non-empty tables of at most n records drawn from pool
Tabelas(pool, n, ausentes) == {Consolidado(ls, ausentes) : ls \in SeqsUpTo(pool, n)}

-----------------------------------------------------------------------------
(* main.py: the run from the consolidated table to the exported fact table *)

\* the columns a source file may lack
Ausencias == {{}, {"fornecedor"}, {"cnpj_fornecedor"}, {"fabricante"}, {"cnpj_fabricante"},
              {"preco_total"}, {"compra"}, {"capacidade"}}

LinhasMain ==
    {ComValores(ComFornecedor(ComProduto(LinhaBase, Produtos[p]), Fornecedores[p]),
                1, 10, 10) : p \in {1, 2}}
    \cup {ComCompra(ComValores(LinhaBase, 0, 30, 0), NULL)}

\* nothing computed yet
Neutro ==
    /\ df_in = TabelaVazia
    /\ df0 = TabelaVazia
    /\ dims = <<>>
    /\ df_radar = TabelaVazia
    /\ arquivos = {}
    /\ etapas = <<>>
    /\ erro = ""
    /\ prefixo_sk = ""
    /\ chave_sk = ""
    /\ fontes = <<>>
    /\ todos_dados = <<>>
    /\ cursor = 0

\* ingestion has left one of the given consolidated tables
Inicio(tabelas) ==
    /\ pc = "passo3"
    /\ \E t \in tabelas : df = t
    /\ indice = 0
    /\ Neutro

TabelasMain == UNION {Tabelas(LinhasMain, MaxLinhas, a) : a \in Ausencias}

Init == Inicio(TabelasMain)

\* an exception that reaches main ends the run
Apos(e, proximo) == IF e = "" THEN proximo ELSE "abortado"

\* steps 3 and 4: df_final = gerar_id_pedido(df_final), saved as the consolidated file
PassoGerarIdPedido ==
    /\ pc = "passo3"
    /\ \E p \in OrdensGerarIdPedido(df) :
          df' = gerar_id_pedido(df, p)
    /\ df_in' = df
    /\ arquivos' = arquivos \cup {"compras_consolidado_final.csv"}
    /\ etapas' = Append(etapas, "gerar_id_pedido")
    /\ pc' = "passo5"
    /\ UNCHANGED <<df0, dims, df_radar, erro, indice, prefixo_sk, chave_sk,
                 fontes, todos_dados, cursor>>

\* step 5: df_fato = criar_e_integrar_dimensoes(df_final, pasta_outputs)
ConcluirDimensoes(r) ==
    /\ df' = r.df
    /\ df0' = r.df
    /\ dims' = r.dims
    /\ arquivos' = arquivos \cup {"dim_" \o r.dims[i].nome \o ".csv" : i \in DOMAIN r.dims}
    /\ erro' = r.erro
    /\ pc' = Apos(r.erro, "passo6")

PassoDimensoes ==
    /\ pc = "passo5"
    /\ ConcluirDimensoes(CriarEIntegrarDimensoes(df))
    /\ df_in' = df
    /\ etapas' = Append(etapas, "criar_e_integrar_dimensoes")
    /\ UNCHANGED <<df_radar, indice, prefixo_sk, chave_sk,
                 fontes, todos_dados, cursor>>

\* an enrichment step of main: r is the [erro, df] the stage returns
PassoEtapa(de, para, nome, r) ==
    /\ pc = de
    /\ df' = r.df
    /\ erro' = r.erro
    /\ pc' = Apos(r.erro, para)
    /\ df_in' = df
    /\ etapas' = Append(etapas, nome)
    /\ UNCHANGED <<df0, dims, df_radar, arquivos, indice, prefixo_sk, chave_sk,
                 fontes, todos_dados, cursor>>

\* step 6
PassoZScore ==
    PassoEtapa("passo6", "passo7", "calcular_zscore_risco",
               [erro |-> "", df |-> calcular_zscore_risco(df)])
\* step 7
PassoPriorizacao ==
    PassoEtapa("passo7", "passo8", "calcular_indice_priorizacao",
               calcular_indice_priorizacao(df))
\* step 8
PassoIntermitencia ==
    PassoEtapa("passo8", "passo9", "calcular_risco_intermitencia",
               calcular_risco_intermitencia(df))
\* step 9
PassoConcentracao ==
    PassoEtapa("passo9", "passo10", "calcular_concentracao_fornecedor",
               calcular_concentracao_fornecedor(df))

\* step 10: the radar, exported only when it is not empty
ConcluirRadar(r) ==
    /\ df_radar' = r
    /\ arquivos' = IF NRows(r) > 0
                   THEN arquivos \cup {"mini_fato_radar_oportunidades.csv"}
                   ELSE arquivos

PassoRadar ==
    /\ pc = "passo10"
    /\ ConcluirRadar(gerar_mini_fato_radar_enriquecida(df))
    /\ pc' = "passo11"
    /\ df_in' = df
    /\ etapas' = Append(etapas, "gerar_mini_fato_radar_enriquecida")
    /\ UNCHANGED <<df, df0, dims, erro, indice, prefixo_sk, chave_sk,
                 fontes, todos_dados, cursor>>

\* step 11: the fact table is exported
PassoExportarFato ==
    /\ pc = "passo11"
    /\ arquivos' = arquivos \cup {"fato_compras_medicamentos.csv"}
    /\ pc' = "fim"
    /\ UNCHANGED <<df, df0, df_in, dims, df_radar, etapas, erro, indice, prefixo_sk, chave_sk,
                 fontes, todos_dados, cursor>>

Next ==
    \/ PassoGerarIdPedido
    \/ PassoDimensoes
    \/ PassoZScore
    \/ PassoPriorizacao
    \/ PassoIntermitencia
    \/ PassoConcentracao
    \/ PassoRadar
    \/ PassoExportarFato

Spec == Init /\ [][Next]_vars

\* the radar has nothing to work on: a column it requires is absent from the
\* fact table, or no row has a positive total price and a positive quantity
RadarSemEntrada(t) ==
    \/ \E c \in {"id_produto", "id_instituicao", "id_tempo", "id_pedido", "id_fornecedor",
                   "id_fabricante", "preco_unitario", "preco_total",
                   "qtd_itens_comprados"} : ~HasCol(t, c)
    \/ \A i \in DOMAIN t.rows :
           ~(t.rows[i]["preco_total"] > 0 /\ t.rows[i]["qtd_itens_comprados"] > 0)

\* step 10 of main was taken
RadarChamado ==
    /\ pc \in {"passo11", "fim"}
    /\ etapas[Len(etapas)] = "gerar_mini_fato_radar_enriquecida"

\* C20: when a required column is absent or no row passes the positivity
\* filter, the radar comes back empty, nothing is raised and the fact table is
\* as it was; main then writes no radar file, and a run that ends has
\* written the fact file
C20_RadarVazioNaoImpedeOFato ==
    (RadarChamado /\ RadarSemEntrada(df_in)) =>
        /\ NRows(df_radar) = 0
        /\ erro = ""
        /\ df = df_in
        /\ "mini_fato_radar_oportunidades.csv" \notin arquivos
        /\ pc = "fim" => "fato_compras_medicamentos.csv" \in arquivos

\* the run ended with the fact file and without the radar file, the fact
\* table having every required column but no row with a positive quantity
C20_Testemunha ==
    /\ RadarChamado
    /\ pc = "fim"
    /\ HasAll(df_in, required_cols)
    /\ NRows(df_in) > 0
    /\ RadarSemEntrada(df_in)
    /\ "fato_compras_medicamentos.csv" \in arquivos
    /\ "mini_fato_radar_oportunidades.csv" \notin arquivos

\* gerar_id_pedido has just returned to main
IdPedidoGerado == pc = "passo5" /\ etapas = <<"gerar_id_pedido">>

\* the rows of t are the rows of t_in in the order p, on the columns cs
MesmasLinhas(t, t_in, cs, p) ==
    \A i \in DOMAIN t.rows : \A c \in cs : t.rows[i][c] = t_in.rows[p[i]][c]

DimensaoOpcionalPulada ==
    /\ Len(etapas) >= 2
    /\ ~(Len(etapas) = 2 /\ pc = "abortado")
    /\ \E nome \in {"fornecedor", "fabricante"} :
          \A i \in DOMAIN dims : dims[i].nome # nome

\* C1: in the run of main, once the Supplier or the Manufacturer dimension has
\* been skipped the run never aborts, and when it ends the fact table has been
\* exported
C1_DimensaoPuladaNaoAborta ==
    DimensaoOpcionalPulada =>
        /\ pc # "abortado"
        /\ (pc = "fim" => "fato_compras_medicamentos.csv" \in arquivos)

-----------------------------------------------------------------------------
(* _criar_dimensao, line 33: the surrogate key of the n-th attribute combination *)

MaxIndice == 30
MaxExcesso == 2

\* the largest index that 5 decimal digits can write
MaiorDeCincoDigitos == 10^LarguraChave - 1

Prefixos == {"Ins", "Pro", "For", "Fab"}

\* the sizes a dimension may have: small ones, and those around 10^5
IndicesChave == (1..MaxIndice) \cup {MaiorDeCincoDigitos - 1 + k : k \in 0..MaxExcesso}

InitChave ==
    /\ pc = "chave"
    /\ indice \in IndicesChave
    /\ df = TabelaVazia
    /\ Neutro

\* df_dim[chave_primaria] = df_dim.index.map(lambda x: f"{prefixo}{x:05d}"), for
\* the row of index `indice`
FormatarChave ==
    /\ pc = "chave"
    /\ \E prefixo \in Prefixos :
          /\ prefixo_sk' = prefixo
          /\ chave_sk' = ChaveSubstituta(prefixo, indice)
    /\ pc' = "chave_feita"
    /\ UNCHANGED <<df, df_in, dims, df_radar, arquivos, etapas, erro, df0, indice,
                 fontes, todos_dados, cursor>>

NextChave == FormatarChave

SpecChave == InitChave /\ [][NextChave]_vars

\* C3: the key of the n-th distinct combination is the prefix followed by n
\* written with exactly 5 digits
C3_ChaveComExatamenteCincoDigitos ==
    pc = "chave_feita" => Len(chave_sk) = Len(prefixo_sk) + LarguraChave

-----------------------------------------------------------------------------
(* The enrichment stages of modelagem_dim.py applied to a fact table in any
   order, any number of times *)

AusenciasEtapas == {{}, {"fornecedor"}}

LinhasEtapas ==
    {ComCompra(ComValores(ComFornecedor(LinhaBase, Fornecedores[1]), 1, 10, 10), T_JAN15),
     ComCompra(ComValores(ComFornecedor(LinhaBase, Fornecedores[2]), 2, 5, 10), T_FEV10),
     ComCompra(ComValores(ComProduto(LinhaBase, Produtos[2]), 0, 30, 0), NULL)}

InitEtapas ==
    Inicio(UNION {Tabelas(LinhasEtapas, MaxLinhasEtapas, a) : a \in AusenciasEtapas})

ConcluirPreparo(r) ==
    /\ df' = r.df
    /\ df0' = r.df
    /\ dims' = r.dims
    /\ erro' = r.erro
    /\ pc' = IF r.erro = "" THEN "fato_pronto" ELSE "abortado"

\* steps 3 to 5 of main: the fact table the enrichment stages receive
PrepararFato ==
    /\ pc = "passo3"
    /\ \E p \in OrdensGerarIdPedido(df) :
          ConcluirPreparo(CriarEIntegrarDimensoes(gerar_id_pedido(df, p)))
    /\ df_in' = df
    /\ UNCHANGED <<df_radar, arquivos, etapas, indice, prefixo_sk, chave_sk,
                 fontes, todos_dados, cursor>>

\* a call df = stage(df): r is the [erro, df] of the stage; an exception
\* leaves the stage and reaches the caller
AplicarEtapa(nome, r) ==
    /\ pc = "fato_pronto"
    /\ Len(etapas) < MaxEtapas
    /\ df' = r.df
    /\ erro' = r.erro
    /\ pc' = IF r.erro = "" THEN "fato_pronto" ELSE "levantou"
    /\ df_in' = df
    /\ etapas' = Append(etapas, nome)
    /\ UNCHANGED <<df0, dims, df_radar, arquivos, indice, prefixo_sk, chave_sk,
                 fontes, todos_dados, cursor>>

AplicarZScore ==
    AplicarEtapa("calcular_zscore_risco", [erro |-> "", df |-> calcular_zscore_risco(df)])
AplicarPriorizacao ==
    AplicarEtapa("calcular_indice_priorizacao", calcular_indice_priorizacao(df))
AplicarIntermitencia ==
    AplicarEtapa("calcular_risco_intermitencia", calcular_risco_intermitencia(df))
AplicarConcentracao ==
    AplicarEtapa("calcular_concentracao_fornecedor", calcular_concentracao_fornecedor(df))

\* df_radar = gerar_mini_fato_radar_enriquecida(df): the fact table is only read
AplicarRadar ==
    /\ pc = "fato_pronto"
    /\ Len(etapas) < MaxEtapas
    /\ df_radar' = gerar_mini_fato_radar_enriquecida(df)
    /\ df_in' = df
    /\ etapas' = Append(etapas, "gerar_mini_fato_radar_enriquecida")
    /\ UNCHANGED <<pc, df, df0, dims, arquivos, erro, indice, prefixo_sk, chave_sk,
                 fontes, todos_dados, cursor>>

NextEtapas ==
    \/ PrepararFato
    \/ AplicarZScore
    \/ AplicarPriorizacao
    \/ AplicarIntermitencia
    \/ AplicarConcentracao
    \/ AplicarRadar

SpecEtapas == InitEtapas /\ [][NextEtapas]_vars

UltimaEtapa == etapas[Len(etapas)]

EtapasQueAlteramOFato ==
    {"calcular_zscore_risco", "calcular_indice_priorizacao",
     "calcular_risco_intermitencia", "calcular_concentracao_fornecedor"}

\* the columns of its argument that a stage reads
ColunasLidas(nome) ==
    CASE nome = "calcular_zscore_risco" -> colunas_zscore
      [] nome = "calcular_indice_priorizacao" -> colunas_priorizacao
      [] nome = "calcular_risco_intermitencia" -> <<COLUNA_DATA, "id_produto">>
      [] nome = "calcular_concentracao_fornecedor" -> <<"id_produto", gasto_col, "id_fornecedor">>
      [] nome = "gerar_mini_fato_radar_enriquecida" -> required_cols

\* the columns a stage adds to the fact table
ColunasProduzidas(nome) ==
    CASE nome = "calcular_zscore_risco" ->
             <<"pmp_individual", "pmp_medio", "pmp_desvio_padrao", "score_z_risco">>
      [] nome = "calcular_indice_priorizacao" -> <<"indice_priorizacao", "demanda_valor">>
      [] nome = "calcular_risco_intermitencia" ->
             <<"Risco_Intermitencia", "Meses_Comprados_Historico">>
      [] nome = "calcular_concentracao_fornecedor" -> <<"%_Gasto_Unico_Forn">>

\* a stage has just been called on a table that lacks a column it reads
EtapaSemColunaLida ==
    /\ Len(etapas) > 0
    /\ ~HasAll(df_in, ColunasLidas(UltimaEtapa))

\* C2: a stage called on a table that lacks a column it reads returns normally:
\* a fact-mutating stage returns its input unchanged, the radar an empty table
C2_EtapaSemColunaRetornaNormalmente ==
    EtapaSemColunaLida =>
        /\ pc # "levantou"
        /\ erro = ""
        /\ IF UltimaEtapa \in EtapasQueAlteramOFato
           THEN df = df_in
           ELSE NRows(df_radar) = 0

ChavesDoFato ==
    <<"id_pedido", "id_instituicao", "id_produto", "id_fornecedor", "id_fabricante", "id_tempo">>

\* C6: after any sequence of successful applications of the fact-mutating
\* stages the fact table has the rows it had, in the same order, and every
\* column it had (id_pedido and the surrogate keys among them) is unchanged
C6_EtapasPreservamLinhasEChaves ==
    (pc = "fato_pronto" /\ Len(etapas) > 0) =>
        /\ NRows(df) = NRows(df0)
        /\ \A k \in DOMAIN ChavesDoFato :
              HasCol(df0, ChavesDoFato[k]) =>
                  /\ HasCol(df, ChavesDoFato[k])
                  /\ Coluna(df, ChavesDoFato[k]) = Coluna(df0, ChavesDoFato[k])
        /\ \A c \in Range(df0.cols) : HasCol(df, c) /\ Coluna(df, c) = Coluna(df0, c)

\* two different stages have enriched a fact table of two rows of one product
C6_Testemunha ==
    /\ pc = "fato_pronto"
    /\ Len(etapas) = 2
    /\ NRows(df0) = 2
    /\ df0.rows[1]["id_produto"] = df0.rows[2]["id_produto"]
    /\ HasCol(df, "Risco_Intermitencia")
    /\ HasCol(df, "%_Gasto_Unico_Forn")

\* a fact-mutating stage has just been called for the second time in a row, on
\* a table that carries the columns its first call produced
EtapaReaplicada ==
    /\ Len(etapas) >= 2
    /\ UltimaEtapa \in EtapasQueAlteramOFato
    /\ etapas[Len(etapas) - 1] = UltimaEtapa
    /\ HasAll(df_in, ColunasProduzidas(UltimaEtapa))

\* C7: the second application of a fact-mutating stage completes without error
\* and leaves the columns and the values the first application produced
C7_ReaplicarEtapaNaoAlteraNada ==
    EtapaReaplicada =>
        /\ pc # "levantou"
        /\ erro = ""
        /\ Range(df.cols) = Range(df_in.cols)
        /\ df.rows = df_in.rows

-----------------------------------------------------------------------------
(* The indicators of modelagem_dim.py, each computed once on a fact table *)

MaxLinhasInd == 3

LinhasIndicadores ==
    {ComCompra(ComValores(ComFornecedor(LinhaBase, Fornecedores[1]), 1, 10, 10), T_JAN15),
     ComCompra(ComValores(ComFornecedor(LinhaBase, Fornecedores[2]), 2, 5, 10), T_FEV10),
     ComCompra(ComValores(ComFornecedor(LinhaBase, Fornecedores[2]), 1, -5, -5), T_JAN15),
     ComCompra(ComValores(ComProduto(LinhaBase, Produtos[2]), 0, 30, 0), NULL),
     ComCompra(ComValores(ComProduto(LinhaBase, Produtos[2]), 1, 0, 10), T_DEZ20)}

InitIndicadores == Inicio(Tabelas(LinhasIndicadores, MaxLinhasInd, {}))

\* the first call of a stage on the fact table: r is the [erro, df] of the stage
Calcular(nome, r) ==
    /\ pc = "fato_pronto"
    /\ etapas = <<>>
    /\ df' = r.df
    /\ erro' = r.erro
    /\ pc' = IF r.erro = "" THEN "calculado" ELSE "levantou"
    /\ df_in' = df
    /\ etapas' = <<nome>>
    /\ UNCHANGED <<df0, dims, df_radar, arquivos, indice, prefixo_sk, chave_sk,
                 fontes, todos_dados, cursor>>

CalcularIntermitencia ==
    Calcular("calcular_risco_intermitencia", calcular_risco_intermitencia(df))
CalcularConcentracao ==
    Calcular("calcular_concentracao_fornecedor", calcular_concentracao_fornecedor(df))

GerarRadar ==
    /\ pc = "fato_pronto"
    /\ etapas = <<>>
    /\ df_radar' = gerar_mini_fato_radar_enriquecida(df)
    /\ pc' = "calculado"
    /\ df_in' = df
    /\ etapas' = <<"gerar_mini_fato_radar_enriquecida">>
    /\ UNCHANGED <<df, df0, dims, arquivos, erro, indice, prefixo_sk, chave_sk,
                 fontes, todos_dados, cursor>>

NextIndicadores ==
    \/ PrepararFato
    \/ CalcularIntermitencia
    \/ CalcularConcentracao
    \/ GerarRadar

SpecIndicadores == InitIndicadores /\ [][NextIndicadores]_vars

Calculado(nome) == pc = "calculado" /\ etapas = <<nome>>

\* C8: no row of the radar has a non-positive PMP_Pago_Linha, and none stems
\* from a fact line whose quantity is not positive
C8_RadarSoComPrecoEQuantidadePositivos ==
    Calculado("gerar_mini_fato_radar_enriquecida") =>
        \A i \in DOMAIN df_radar.rows :
            /\ df_radar.rows[i]["PMP_Pago_Linha"] > 0
            /\ \A j \in DOMAIN df_in.rows :
                  df_in.rows[j]["id_pedido"] = df_radar.rows[i]["id_pedido"]
                      => df_in.rows[j]["qtd_itens_comprados"] > 0

\* the rows of t of the product of row i
LinhasDoProduto(t, i) == LinhasDoGrupo(t, "id_produto", t.rows[i]["id_produto"])

\* all the rows of the product of row i reference one single supplier
FornecedorUnico(t, i) ==
    \A r \in Range(LinhasDoProduto(t, i)) : r["id_fornecedor"] = t.rows[i]["id_fornecedor"]

EntreZeroEUm(v) == v # NULL /\ RLeq(RInt(0), v) /\ RLeq(v, RInt(1))

\* the statement of C9 as the specification words it: every row's
\* %_Gasto_Unico_Forn lies in [0,1], and it is 1 for a single-supplier product
C9_ConcentracaoComoEscrita ==
    Calculado("calcular_concentracao_fornecedor") =>
        \A i \in DOMAIN df.rows :
            /\ EntreZeroEUm(df.rows[i]["%_Gasto_Unico_Forn"])
            /\ FornecedorUnico(df, i) => df.rows[i]["%_Gasto_Unico_Forn"] = RInt(1)

\* C9: after calcular_concentracao_fornecedor, a product none of whose rows has
\* a negative preco_total has %_Gasto_Unico_Forn in [0,1]; a single-supplier
\* product has exactly 1 when its total spend is positive, and 0 otherwise
C9_ConcentracaoEntreZeroEUm ==
    Calculado("calcular_concentracao_fornecedor") =>
        \A i \in DOMAIN df.rows :
            LET v == df.rows[i]["%_Gasto_Unico_Forn"]
                total == Gasto(LinhasDoProduto(df, i))
            IN  /\ (\A r \in Range(LinhasDoProduto(df, i)) : r[gasto_col] >= 0)
                      => EntreZeroEUm(v)
                /\ (FornecedorUnico(df, i) /\ total > 0) => v = RInt(1)
                /\ total <= 0 => v = RInt(0)

\* a product bought half from each of two suppliers beside a product bought
\* from a single one
C9_Testemunha ==
    /\ Calculado("calcular_concentracao_fornecedor")
    /\ \E i, j \in DOMAIN df.rows :
          /\ ~FornecedorUnico(df, i)
          /\ df.rows[i]["%_Gasto_Unico_Forn"] = Rat(1, 2)
          /\ FornecedorUnico(df, j)
          /\ df.rows[j]["%_Gasto_Unico_Forn"] = RInt(1)

\* the year-months YYYYMM from mes_min to mes_max
MesesDaJanela(mes_min, mes_max) == {m \in mes_min..mes_max : (m % 100) \in 1..12}

\* the year-months in which the product of row i was bought
MesesDoProduto(t, i) ==
    {MesCompra(r)[1] : r \in {x \in Range(LinhasDoProduto(t, i)) : x[COLUNA_DATA] # NULL}}

CompradoEmTodosOsMeses(t, i) ==
    MesesDoProduto(t, i) = MesesDaJanela(MinDe(MesesValidos(t)), MaxDe(MesesValidos(t)))

\* C10: after calcular_risco_intermitencia every row's Risco_Intermitencia is
\* between 0 and 1, and it is 0 for a product bought in every year-month from
\* the earliest to the latest of the table
C10_RiscoIntermitenciaEntreZeroEUm ==
    (Calculado("calcular_risco_intermitencia") /\ HasCol(df, "Risco_Intermitencia")) =>
        \A i \in DOMAIN df.rows :
            /\ EntreZeroEUm(df.rows[i]["Risco_Intermitencia"])
            /\ CompradoEmTodosOsMeses(df, i) => df.rows[i]["Risco_Intermitencia"] = RInt(0)

\* over a window of three months, one product bought in every month beside a
\* product bought in one of them only
C10_Testemunha ==
    /\ Calculado("calcular_risco_intermitencia")
    /\ HasCol(df, "Risco_Intermitencia")
    /\ Cardinality(MesesDaJanela(MinDe(MesesValidos(df)), MaxDe(MesesValidos(df)))) >= 2
    /\ \E i, j \in DOMAIN df.rows :
          /\ CompradoEmTodosOsMeses(df, i)
          /\ df.rows[i]["Risco_Intermitencia"] = RInt(0)
          /\ ~CompradoEmTodosOsMeses(df, j)
          /\ RLt(RInt(0), df.rows[j]["Risco_Intermitencia"])

-----------------------------------------------------------------------------
(* criar_e_integrar_dimensoes, one call of _criar_dimensao at a time *)

MaxLinhasDim == 3

AusenciasDim == {{}, {"fabricante"}, {"cnpj_fornecedor"}}

\* the third institution shares the CNPJ and the name of the first
LinhasDim ==
    {ComCompra(LinhaBase, T_DEZ20),
     ComCompra(ComFabricante(ComFornecedor(ComProduto(ComInstituicao(LinhaBase,
         Instituicoes[2]), Produtos[2]), Fornecedores[2]), Fabricantes[2]), T_JAN15),
     ComCompra(LinhaBase, T_FEV10),
     ComCompra(ComFornecedor(ComInstituicao(LinhaBase, Instituicoes[3]), Fornecedores[2]),
               T_JAN15)}

InitDim == Inicio(UNION {Tabelas(LinhasDim, MaxLinhasDim, a) : a \in AusenciasDim})

\* df_fato = _criar_dimensao(df_fato, nome, ...): r is the [erro, fato, dim] of
\* the call, or of the skip of an optional dimension
PassoDimensao(de, para, nome, r) ==
    /\ pc = de
    /\ df' = r.fato
    /\ dims' = dims \o Emitida(nome, r)
    /\ erro' = IF Falhou(r) THEN r.erro ELSE ""
    /\ pc' = IF Falhou(r) THEN "abortado" ELSE para
    /\ df_in' = df
    /\ etapas' = Append(etapas, nome)
    /\ UNCHANGED <<df0, df_radar, arquivos, indice, prefixo_sk, chave_sk,
                 fontes, todos_dados, cursor>>

DimInstituicao ==
    PassoDimensao("passo5", "dim_produto", "instituicao",
                  CriarDimensao(df, col_inst, "id_instituicao", "Ins"))
DimProduto ==
    PassoDimensao("dim_produto", "dim_fornecedor", "produto",
                  CriarDimensao(df, col_prod, "id_produto", "Pro"))
DimFornecedor ==
    PassoDimensao("dim_fornecedor", "dim_fabricante", "fornecedor",
                  CriarDimensaoOpcional(df, col_forn, "id_fornecedor", "For"))
DimFabricante ==
    PassoDimensao("dim_fabricante", "dim_tempo", "fabricante",
                  CriarDimensaoOpcional(df, col_fabr, "id_fabricante", "Fab"))

\* the time dimension: rt is the [fato, dim, chave, escrita] of its try block
ConcluirTempo(rt) ==
    /\ df' = rt.fato
    /\ dims' = dims \o (IF rt.escrita THEN <<[nome |-> "tempo", tabela |-> rt.dim]>> ELSE <<>>)

DimTempo ==
    /\ pc = "dim_tempo"
    /\ ConcluirTempo(DimensaoTempo(df))
    /\ pc' = "reordenar"
    /\ df_in' = df
    /\ etapas' = Append(etapas, "tempo")
    /\ UNCHANGED <<df0, df_radar, arquivos, erro, indice, prefixo_sk, chave_sk,
                   fontes, todos_dados, cursor>>

\* chaves_dimensao at step 6: id_pedido, the key of each dimension built, and
\* id_tempo once the time keys were merged into the fact table
ChavesDimensao(ds, t) ==
    <<"id_pedido">>
    \o [i \in DOMAIN SelectSeq(ds, LAMBDA d : d.nome # "tempo") |->
           "id_" \o SelectSeq(ds, LAMBDA d : d.nome # "tempo")[i].nome]
    \o (IF HasCol(t, "id_tempo") THEN <<"id_tempo">> ELSE <<>>)

\* step 6 of criar_e_integrar_dimensoes
ReordenarColunas ==
    /\ pc = "reordenar"
    /\ df' = ReordenarFato(df, ChavesDimensao(dims, df))
    /\ pc' = "retornou"
    /\ df_in' = df
    /\ etapas' = Append(etapas, "reordenar")
    /\ UNCHANGED <<df0, dims, df_radar, arquivos, erro, indice, prefixo_sk, chave_sk,
                   fontes, todos_dados, cursor>>

NextDim ==
    \/ PassoGerarIdPedido
    \/ DimInstituicao
    \/ DimProduto
    \/ DimFornecedor
    \/ DimFabricante
    \/ DimTempo
    \/ ReordenarColunas

SpecDim == InitDim /\ [][NextDim]_vars

AtributosDe(nome) ==
    CASE nome = "instituicao" -> col_inst
      [] nome = "produto" -> col_prod
      [] nome = "fornecedor" -> col_forn
      [] nome = "fabricante" -> col_fabr

ChavePrimariaDe(nome) == "id_" \o nome

\* the last step of the run built and integrated a dimension
DimensaoIntegrada ==
    /\ pc \in {"dim_produto", "dim_fornecedor", "dim_fabricante", "dim_tempo"}
    /\ Len(dims) > 0
    /\ dims[Len(dims)].nome = UltimaEtapa

\* the attribute values of a record
Atributos(row, cs) == [i \in DOMAIN cs |-> row[cs[i]]]

\* C4: once a dimension is integrated the fact table has lost the attribute
\* columns of the dimension, has the rows it had, and each row carries the key
\* of the one dimension row that has the attribute values the row had; so two
\* rows have the same key exactly when they had the same attribute values
C4_ChaveIdentificaAtributos ==
    DimensaoIntegrada =>
        LET cs == AtributosDe(UltimaEtapa)
            k == ChavePrimariaDe(UltimaEtapa)
            d == dims[Len(dims)].tabela
        IN  /\ \A i \in DOMAIN cs : ~HasCol(df, cs[i])
            /\ HasCol(df, k)
            /\ NRows(df) = NRows(df_in)
            /\ \A i \in DOMAIN df.rows :
                  /\ Cardinality({n \in DOMAIN d.rows : d.rows[n][k] = df.rows[i][k]}) = 1
                  /\ \A n \in DOMAIN d.rows :
                        d.rows[n][k] = df.rows[i][k]
                            <=> Atributos(d.rows[n], cs) = Atributos(df_in.rows[i], cs)
            /\ \A i, j \in DOMAIN df.rows :
                  df.rows[i][k] = df.rows[j][k]
                      <=> Atributos(df_in.rows[i], cs) = Atributos(df_in.rows[j], cs)

\* rows 1 and 3 of one institution and row 2 of another: the dimension has two
\* rows, rows 1 and 3 are keyed Ins00001 and row 2 is keyed Ins00002
C4_Testemunha ==
    /\ DimensaoIntegrada
    /\ UltimaEtapa = "instituicao"
    /\ NRows(dims[Len(dims)].tabela) = 2
    /\ Coluna(df, "id_instituicao") = <<"Ins00001", "Ins00002", "Ins00001">>

\* the step just taken was that of an optional dimension whose attribute
\* columns are not all in the fact table it received
DimensaoOpcionalSemAtributos ==
    /\ Len(etapas) > 0
    /\ UltimaEtapa \in {"fornecedor", "fabricante"}
    /\ ~HasAll(df_in, AtributosDe(UltimaEtapa))

\* C15: when an attribute column of the Supplier or Manufacturer dimension is
\* absent, the step raises nothing, emits no table for the dimension, adds no
\* key column, and leaves the fact table as it received it
C15_DimensaoPuladaNaoAlteraOFato ==
    DimensaoOpcionalSemAtributos =>
        /\ pc # "abortado"
        /\ erro = ""
        /\ \A i \in DOMAIN dims : dims[i].nome # UltimaEtapa
        /\ ~HasCol(df, ChavePrimariaDe(UltimaEtapa))
        /\ df = df_in

\* the Supplier step was skipped on a fact table that has 'fornecedor' but
\* not 'cnpj_fornecedor', after two dimensions were built
C15_Testemunha ==
    /\ DimensaoOpcionalSemAtributos
    /\ UltimaEtapa = "fornecedor"
    /\ HasCol(df_in, "fornecedor")
    /\ Len(dims) = 2
    /\ NRows(df) = 3

-----------------------------------------------------------------------------
(* gerar_id_pedido, lines 251-275: the identifiers of two records *)

Variante(col, v) == [LinhaBase EXCEPT ![col] = v]

\* the base record and the records that differ from it in one hash-input field
LinhasHash ==
    {LinhaBase}
    \cup {Variante("cnpj_instituicao", v) : v \in {CNPJ_A2, CNPJ_AP, CNPJ_B}}
    \cup {Variante("compra", v) : v \in {T_JAN15_12H, NULL}}
    \cup {Variante("codigo_br", Produtos[2].codigo)}
    \cup {Variante("cnpj_fornecedor", v) : v \in {CNPJ_A2, CNPJ_B}}
    \cup {Variante("qtd_itens_comprados", 2), Variante("preco_unitario", 5)}
    \cup {Variante("cnpj_fabricante", CNPJ_A), Variante("insercao", T_DEZ20)}
    \cup {Variante("unidade_fornecimento_capacidade", <<"F", "R", "_", "1", "0">>)}
    \cup {Variante("capacidade", 1)}
    \cup {Variante("unidade_medida", <<"1", "0", "_", "M", "L">>)}

InitHash ==
    /\ pc = "hash"
    /\ \E a, b \in LinhasHash : df = Consolidado(<<a, b>>, {})
    /\ indice = 0
    /\ Neutro

\* the else branch of lines 253-275: every record receives its id_pedido
CalcularIdPedido ==
    /\ pc = "hash"
    /\ HasAll(df, colunas_hash)
    /\ df' = ComIdPedido(df)
    /\ df_in' = df
    /\ pc' = "hash_feito"
    /\ UNCHANGED <<df0, dims, df_radar, arquivos, etapas, erro, indice, prefixo_sk, chave_sk,
                 fontes, todos_dados, cursor>>

NextHash == CalcularIdPedido

SpecHash == InitHash /\ [][NextHash]_vars

\* the hash-input fields in which two records differ
CamposDiferentes(a, b) == {i \in DOMAIN colunas_hash : a[colunas_hash[i]] # b[colunas_hash[i]]}

PrimeirosDigitos(v, n) ==
    LET d == SelectSeq(v, EhDigito)
    IN  [k \in 1..(IF Len(d) < n THEN Len(d) ELSE n) |-> d[k]]

\* two values of a hash-input field that the identifier does not tell apart:
\* CNPJs with the same first eight digits, other values with the same text
\* once the blanks at both ends are removed
MesmoValorParaOId(col, a, b) ==
    IF col \in {"cnpj_instituicao", "cnpj_fornecedor", "cnpj_fabricante"}
    THEN PrimeirosDigitos(a, 8) = PrimeirosDigitos(b, 8)
    ELSE IF col \in {"compra", "insercao"} THEN Strip(StrData(a)) = Strip(StrData(b))
    ELSE IF col \in {"qtd_itens_comprados", "preco_unitario", "capacidade"} THEN a = b
    ELSE Strip(a) = Strip(b)

-----------------------------------------------------------------------------
(* The price-risk indicators: the z-score on the consolidated table, and the
   prioritization index on the fact table that carries the z-score *)

MaxLinhasRisco == 3

LinhasRisco ==
    {ComCompra(ComValores(LinhaBase, 1, 10, 10), T_JAN15),
     ComCompra(ComValores(LinhaBase, 2, 5, 10), T_FEV10),
     ComCompra(ComValores(LinhaBase, 1, 40, 40), T_FEV10),
     ComCompra(ComValores(LinhaBase, 1, 30, 30), T_DEZ20),
     ComCompra(ComValores(ComProduto(LinhaBase, Produtos[2]), 3, 20, 60), T_JAN15),
     ComCompra(ComValores(ComProduto(LinhaBase, Produtos[2]), 0, 30, 0), NULL)}

InitRisco == Inicio(Tabelas(LinhasRisco, MaxLinhasRisco, {}))

\* df = calcular_zscore_risco(df) on the consolidated table
CalcularZScore ==
    /\ pc = "passo3"
    /\ df' = calcular_zscore_risco(df)
    /\ df_in' = df
    /\ etapas' = <<"calcular_zscore_risco">>
    /\ pc' = "calculado"
    /\ UNCHANGED <<df0, dims, df_radar, arquivos, erro, indice, prefixo_sk, chave_sk,
                 fontes, todos_dados, cursor>>

CalcularPriorizacao ==
    Calcular("calcular_indice_priorizacao", calcular_indice_priorizacao(df))

NextRisco ==
    \/ CalcularZScore
    \/ PrepararFato
    \/ CalcularPriorizacao

SpecRisco == InitRisco /\ [][NextRisco]_vars

\* C11: after calcular_indice_priorizacao every fact row's indice_priorizacao
\* lies in [0,1], and for every product the normalized mean absolute z-score
\* and the normalized total spend lie in [0,1]
C11_IndiceEComponentesEntreZeroEUm ==
    (Calculado("calcular_indice_priorizacao") /\ HasAll(df_in, colunas_priorizacao)) =>
        /\ \A i \in DOMAIN df.rows : EntreZeroEUm(df.rows[i]["indice_priorizacao"])
        /\ LET prods == ChavesDeGrupo(df_in, "id_produto")
               riscos == [k \in DOMAIN prods |-> RiscoMedio(df_in, prods[k])]
               demandas == [k \in DOMAIN prods |-> DemandaValor(df_in, prods[k])]
           IN  \A k \in DOMAIN prods :
                   /\ EntreZeroEUm(Normalizado(riscos[k], riscos))
                   /\ EntreZeroEUm(Normalizado(demandas[k], demandas))

\* the index was computed for two products, one with the largest risk and
\* the largest spend (index 1), the other with the smallest of both (index 0)
C11_Testemunha ==
    /\ Calculado("calcular_indice_priorizacao")
    /\ \E i, j \in DOMAIN df.rows :
          /\ df.rows[i]["indice_priorizacao"] = RInt(1)
          /\ df.rows[j]["indice_priorizacao"] = RInt(0)
          /\ df.rows[i]["score_z_risco"] # RInt(0)

\* rows j of t in the same (catalog code, purchase year) group as row i
MesmoGrupoZ(t, i) ==
    {j \in DOMAIN t.rows :
        /\ t.rows[i]["compra"] # NULL
        /\ t.rows[j]["compra"] # NULL
        /\ t.rows[j]["codigo_br"] = t.rows[i]["codigo_br"]
        /\ Ano(t.rows[j]["compra"]) = Ano(t.rows[i]["compra"])}

PrecosIguais(t, J) ==
    \A j, k \in J : t.rows[j]["pmp_individual"] = t.rows[k]["pmp_individual"]

\* C12: a row whose (catalog code, purchase year) group has one member, or
\* whose group has equal pmp_individual throughout, has score_z_risco 0
C12_ZScoreZeroSemDispersao ==
    Calculado("calcular_zscore_risco") =>
        \A i \in DOMAIN df.rows :
            (Cardinality(MesmoGrupoZ(df, i)) = 1 \/ PrecosIguais(df, MesmoGrupoZ(df, i)))
                => df.rows[i]["score_z_risco"] = RInt(0)

\* one table holds a group of one, a group of two equal prices, and the
\* first row is scored 0
C12_Testemunha ==
    /\ Calculado("calcular_zscore_risco")
    /\ \E i, j \in DOMAIN df.rows :
          /\ Cardinality(MesmoGrupoZ(df, i)) = 1
          /\ Cardinality(MesmoGrupoZ(df, j)) = 2
          /\ PrecosIguais(df, MesmoGrupoZ(df, j))
          /\ \E k \in DOMAIN df.rows : df.rows[k]["codigo_br"] = df.rows[i]["codigo_br"]
                                       /\ k \notin MesmoGrupoZ(df, i)
                                       /\ df.rows[k]["compra"] # NULL
          /\ df.rows[i]["score_z_risco"] = RInt(0)
          /\ df.rows[j]["score_z_risco"] = RInt(0)

-----------------------------------------------------------------------------
(* main.py: ingestion, steps 1 and 2, followed by the rest of the run *)

MaxFontes == 2

\* a CSV file of the raw folder: an old year (2020.csv .. 2022.csv), a new
\* year (a name holding a year from 2023 on) or neither; and what reading and
\* treating it gives: data, nothing, or an exception
TiposDeFonte == {"antigo", "novo", "outro"}
ResultadosDeFonte == {"dados", "sem_dados", "erro"}
Fontes == [tipo : TiposDeFonte, resultado : ResultadosDeFonte]

\* the table a file that yields data is treated into
DadosDe(f) ==
    IF f.tipo = "antigo"
    THEN Consolidado(<<ComCompra(LinhaBase, T_DEZ20)>>, {})
    ELSE Consolidado(<<ComFornecedor(ComProduto(LinhaBase, Produtos[2]), Fornecedores[2])>>, {})

\* pd.concat(tabelas, ignore_index=True): the union of the columns in order
\* of appearance, a missing value where a table lacks the column
Concat(tabelas) ==
    LET cols == Distinct(Flatten([i \in DOMAIN tabelas |-> tabelas[i].cols]))
        alargar(t, r) == [c \in Range(cols) |-> IF HasCol(t, c) THEN r[c] ELSE NullFor(c)]
    IN  [cols |-> cols,
         rows |-> Flatten([i \in DOMAIN tabelas |->
                     [j \in DOMAIN tabelas[i].rows |-> alargar(tabelas[i], tabelas[i].rows[j])]])]

\* ETLComprasAntigos.processar_todos_antigos: the old files that cannot be
\* read or treated are skipped; None when no file is left
processar_todos_antigos(fs) ==
    LET dfs == SelectSeq(fs, LAMBDA f : f.tipo = "antigo" /\ f.resultado = "dados")
    IN  IF Len(dfs) = 0 THEN NULL ELSE Concat([i \in DOMAIN dfs |-> DadosDe(dfs[i])])

\* arquivos_novos: the files whose name holds a year from 2023 on
arquivos_novos(fs) == SelectSeq(fs, LAMBDA f : f.tipo = "novo")

\* ETLComprasPublicas.processar_arquivo_individual: the treated table, None,
\* or an exception
processar_arquivo_individual(f) ==
    IF f.resultado = "dados" THEN [erro |-> "", df |-> DadosDe(f)]
    ELSE IF f.resultado = "erro" THEN [erro |-> "Exception", df |-> NULL]
    ELSE [erro |-> "", df |-> NULL]

\* faulty variant of Aproveitar: whatever the source returned is kept
AproveitarSempre(td, d) == Append(td, IF d = NULL THEN TabelaVazia ELSE d)

\* if d is not None and not d.empty: todos_dados.append(d)
Aproveitar(td, d) == IF d # NULL /\ NRows(d) > 0 THEN Append(td, d) ELSE td

InitIngestao ==
    /\ pc = "listar"
    /\ df = TabelaVazia
    /\ indice = 0
    /\ df_in = TabelaVazia
    /\ df0 = TabelaVazia
    /\ dims = <<>>
    /\ df_radar = TabelaVazia
    /\ arquivos = {}
    /\ etapas = <<>>
    /\ erro = ""
    /\ prefixo_sk = ""
    /\ chave_sk = ""
    /\ fontes \in {<<>>} \cup SeqsUpTo(Fontes, MaxFontes)
    /\ todos_dados = <<>>
    /\ cursor = 0

\* step 1: main returns when the raw folder holds no CSV file
ListarArquivos ==
    /\ pc = "listar"
    /\ pc' = IF Len(fontes) = 0 THEN "encerrado" ELSE "antigos"
    /\ UNCHANGED <<df, df_in, dims, df_radar, arquivos, etapas, erro, df0, indice,
                   prefixo_sk, chave_sk, fontes, todos_dados, cursor>>

\* step 2.2: the old years in one batch; an exception is caught and printed
ProcessarAntigos ==
    /\ pc = "antigos"
    /\ todos_dados' = Aproveitar(todos_dados, processar_todos_antigos(fontes))
    /\ cursor' = 1
    /\ pc' = "novos"
    /\ UNCHANGED <<df, df_in, dims, df_radar, arquivos, etapas, erro, df0, indice,
                   prefixo_sk, chave_sk, fontes>>

\* step 2.3: one new file; an exception is caught and printed
ProcessarNovo ==
    /\ pc = "novos"
    /\ cursor <= Len(arquivos_novos(fontes))
    /\ todos_dados' = Aproveitar(todos_dados,
                                  processar_arquivo_individual(arquivos_novos(fontes)[cursor]).df)
    /\ cursor' = cursor + 1
    /\ UNCHANGED <<pc, df, df_in, dims, df_radar, arquivos, etapas, erro, df0, indice,
                   prefixo_sk, chave_sk, fontes>>

\* step 2.4: main returns when nothing was kept, and consolidates otherwise
Consolidar ==
    /\ pc = "novos"
    /\ cursor > Len(arquivos_novos(fontes))
    /\ IF todos_dados = <<>>
       THEN pc' = "encerrado" /\ df' = df
       ELSE pc' = "passo3" /\ df' = Concat(todos_dados)
    /\ UNCHANGED <<df_in, dims, df_radar, arquivos, etapas, erro, df0, indice,
                   prefixo_sk, chave_sk, fontes, todos_dados, cursor>>

NextIngestao ==
    \/ ListarArquivos
    \/ ProcessarAntigos
    \/ ProcessarNovo
    \/ Consolidar
    \/ Next

SpecIngestao == InitIngestao /\ [][NextIngestao]_vars

\* no source yields data: no CSV file, or every file fails or returns nothing
SemDados == \A i \in DOMAIN fontes :
                fontes[i].tipo = "outro" \/ fontes[i].resultado # "dados"

\* C13: when no source yields data the run never leaves ingestion: no
\* id_pedido, no dimension, no enrichment stage, no output file; and a run
\* that ends in ingestion had no source that yielded data
C13_SemDadosPara ==
    /\ SemDados =>
          /\ pc \in {"listar", "antigos", "novos", "encerrado"}
          /\ etapas = <<>>
          /\ dims = <<>>
          /\ arquivos = {}
          /\ ~HasCol(df, "id_pedido")
    /\ pc = "encerrado" => SemDados

\* two files were found, one failed and the other returned nothing, and the
\* run has ended
C13_Testemunha ==
    /\ pc = "encerrado"
    /\ Len(fontes) = 2
    /\ fontes[1].resultado = "erro"
    /\ fontes[2].resultado = "sem_dados"
    /\ fontes[2].tipo = "novo"

-----------------------------------------------------------------------------
(* criar_e_integrar_dimensoes step by step, on purchase dates that are
   missing, repeated, or differ only in the time of day *)

MaxLinhasTempo == 3

AusenciasTempo == {{}, {"compra"}, {"fabricante"}}

LinhasTempo ==
    {ComCompra(LinhaBase, T_JAN15),
     ComCompra(LinhaBase, T_JAN15_12H),
     ComCompra(LinhaBase, T_FEV10),
     ComCompra(LinhaBase, NULL)}

InitTempo == Inicio(UNION {Tabelas(LinhasTempo, MaxLinhasTempo, a) : a \in AusenciasTempo})

SpecTempo == InitTempo /\ [][NextDim]_vars

\* the time-dimension step has just been taken
TempoIntegrado == pc = "reordenar" /\ UltimaEtapa = "tempo"

\* the time dimension emitted, empty when none was
DimTempoEmitida ==
    LET ds == SelectSeq(dims, LAMBDA d : d.nome = "tempo")
    IN  IF Len(ds) = 0 THEN TabelaVazia ELSE ds[1].tabela

\* C16: the time-dimension step keeps every fact row, in place; a row without
\* a valid purchase date has a null id_tempo and no row of the time dimension
\* stands for it, and a row with a valid date has the integer YYYYMMDD of it
C16_TodaLinhaMantidaComIdTempo ==
    TempoIntegrado =>
        /\ NRows(df) = NRows(df_in)
        /\ \A i \in DOMAIN df.rows :
              \A c \in Range(df_in.cols) \ {"compra"} : df.rows[i][c] = df_in.rows[i][c]
        /\ HasCol(df_in, "compra") =>
              /\ HasCol(df, "id_tempo")
              /\ \A i \in DOMAIN df.rows :
                    IF df_in.rows[i]["compra"] = NULL
                    THEN df.rows[i]["id_tempo"] = NULL
                    ELSE df.rows[i]["id_tempo"] = <<df_in.rows[i]["compra"][1] \div 100>>
              /\ \A k \in DOMAIN DimTempoEmitida.rows :
                    /\ DimTempoEmitida.rows[k]["data_completa"] # NULL
                    /\ DimTempoEmitida.rows[k]["id_tempo"] # NULL
        /\ ~HasCol(df_in, "compra") => df = df_in

\* a fact table of a dated and an undated record: the dimension has one row,
\* the undated record is still there with a null id_tempo
C16_Testemunha ==
    /\ TempoIntegrado
    /\ NRows(df) = 2
    /\ HasCol(df_in, "compra")
    /\ df_in.rows[2]["compra"] = NULL
    /\ df.rows[2]["id_tempo"] = NULL
    /\ df.rows[1]["id_tempo"] = <<20240210>>
    /\ NRows(DimTempoEmitida) = 1

\* C17: no two rows of the emitted time dimension share an id_tempo, whatever
\* the purchase dates of the fact table
C17_UmaLinhaPorDataDeCalendario ==
    TempoIntegrado =>
        \A i, j \in DOMAIN DimTempoEmitida.rows :
            i # j => DimTempoEmitida.rows[i]["id_tempo"] # DimTempoEmitida.rows[j]["id_tempo"]

\* step 6 has just been taken
ColunasReordenadas == pc = "retornou" /\ UltimaEtapa = "reordenar"

TodasAsChaves ==
    <<"id_pedido", "id_instituicao", "id_produto", "id_fornecedor", "id_fabricante",
      "id_tempo">>

\* the dimension that owns key column c was built
DimensaoConstruida(c) == \E i \in DOMAIN dims : "id_" \o dims[i].nome = c

\* the column order that follows from putting the key columns ks first
OrdemEsperada(t, ks) ==
    ks \o SelectSeq(<<"modalidade_compra", "tipo_compra">>, LAMBDA c : HasCol(t, c))
       \o SelectSeq(t.cols, LAMBDA c : c \notin Range(ks) \cup {"modalidade_compra",
                                                               "tipo_compra"})

SemRepeticao(cs) == \A i, j \in DOMAIN cs : i # j => cs[i] # cs[j]

\* the statement of C19 as the specification words it: id_pedido if present,
\* then the keys of the dimensions actually built, then the context columns,
\* then the rest in their prior order
C19_ChavesDasDimensoesConstruidas ==
    ColunasReordenadas =>
        df.cols = OrdemEsperada(df_in,
                      SelectSeq(TodasAsChaves,
                                LAMBDA c : HasCol(df_in, c)
                                           /\ (c = "id_pedido" \/ DimensaoConstruida(c))))

\* C19: id_pedido and the dimension key columns the fact table carries come
\* first, in creation order, then modalidade_compra and tipo_compra, then the
\* remaining columns in their prior order; the columns are those of the table
\* before the step, each once, and the rows are untouched
C19_ChavesPresentesPrimeiro ==
    ColunasReordenadas =>
        /\ df.cols = OrdemEsperada(df_in,
                         SelectSeq(TodasAsChaves, LAMBDA c : HasCol(df_in, c)))
        /\ Range(df.cols) = Range(df_in.cols)
        /\ Len(df.cols) = Len(df_in.cols)
        /\ SemRepeticao(df.cols)
        /\ df.rows = df_in.rows

\* the Manufacturer dimension was skipped: the four keys present lead, the
\* context columns follow, and the order differs from the one before
C19_Testemunha ==
    /\ ColunasReordenadas
    /\ ~HasCol(df, "id_fabricante")
    /\ SubSeq(df.cols, 1, 7) = <<"id_pedido", "id_instituicao", "id_produto",
                                 "id_fornecedor", "id_tempo", "modalidade_compra",
                                 "tipo_compra">>
    /\ df.cols # df_in.cols

-----------------------------------------------------------------------------
(* gerar_id_pedido, lines 294-299: the order of the records it returns *)

MaxLinhasOrdem == 3

AusenciasOrdem == {{}, {"codigo_br"}}

\* the first two records are equal on the purchase date and the catalog code
LinhasOrdem ==
    {ComCompra(LinhaBase, T_JAN15),
     ComCompra(ComFornecedor(LinhaBase, Fornecedores[2]), T_JAN15),
     ComCompra(ComProduto(LinhaBase, Produtos[2]), T_JAN15),
     ComCompra(LinhaBase, T_DEZ20),
     ComCompra(LinhaBase, NULL)}

InitOrdem == Inicio(UNION {Tabelas(LinhasOrdem, MaxLinhasOrdem, a) : a \in AusenciasOrdem})

NextOrdem == PassoGerarIdPedido

SpecOrdem == InitOrdem /\ [][NextOrdem]_vars

\* (compra, codigo_br) of a is at most that of b; a missing date comes last
ChaveDeOrdemLeq(a, b) ==
    IF a["compra"] # b["compra"]
    THEN b["compra"] = NULL \/ (a["compra"] # NULL /\ a["compra"][1] < b["compra"][1])
    ELSE TextoLeq(a["codigo_br"], b["codigo_br"])

MesmaChaveDeOrdem(a, b) == a["compra"] = b["compra"] /\ a["codigo_br"] = b["codigo_br"]

\* C18: on a table that has both sort columns gerar_id_pedido returns the
\* records it received, ascending by (compra, codigo_br), the records equal on
\* both in the order they came in
C18_OrdenadoPorDataECodigo ==
    (IdPedidoGerado /\ HasAll(df_in, <<"compra", "codigo_br">>)) =>
        \E p \in Permutacoes(NRows(df_in)) :
            /\ NRows(df) = NRows(df_in)
            /\ MesmasLinhas(df, df_in, {"compra", "codigo_br", "cnpj_fornecedor"}, p)
            /\ \A i, j \in DOMAIN df.rows :
                  i < j => /\ ChaveDeOrdemLeq(df.rows[i], df.rows[j])
                           /\ MesmaChaveDeOrdem(df.rows[i], df.rows[j]) => p[i] < p[j]

\* three records came in as: no date, catalog code 45, catalog code 123 of the
\* second supplier; they came out sorted, the undated one last
C18_Testemunha ==
    /\ IdPedidoGerado
    /\ HasAll(df_in, <<"compra", "codigo_br">>)
    /\ NRows(df_in) = 3
    /\ df_in.rows[1]["compra"] = NULL
    /\ df_in.rows[2]["codigo_br"] = Produtos[2].codigo
    /\ df_in.rows[3]["codigo_br"] = Produtos[1].codigo
    /\ df_in.rows[3]["compra"] = T_JAN15
    /\ df.rows[1]["codigo_br"] = Produtos[1].codigo
    /\ df.rows[2]["codigo_br"] = Produtos[2].codigo
    /\ df.rows[3]["compra"] = NULL

-----------------------------------------------------------------------------
(* calcular_risco_intermitencia applied to a fact table whose purchase dates
   may all be missing *)

MaxLinhasJanela == 3

ColunasFatoJanela == <<"id_produto", "data_compra", "preco_total">>

LinhasJanela ==
    {[id_produto |-> p, data_compra |-> d, preco_total |-> 10] :
        p \in {"Pro00001", "Pro00002"}, d \in {NULL, T_JAN15, T_FEV10}}

FatosJanela ==
    {[cols |-> ColunasFatoJanela, rows |-> ls] : ls \in SeqsUpTo(LinhasJanela, MaxLinhasJanela)}

InitJanela ==
    /\ pc = "fato_pronto"
    /\ \E t \in FatosJanela : df = t
    /\ indice = 0
    /\ Neutro

NextJanela == CalcularIntermitencia

SpecJanela == InitJanela /\ [][NextJanela]_vars

\* the stage was called on a table that has the date column but no valid date
JanelaIndeterminada ==
    /\ etapas = <<"calcular_risco_intermitencia">>
    /\ HasCol(df_in, COLUNA_DATA)
    /\ \A i \in DOMAIN df_in.rows : df_in.rows[i][COLUNA_DATA] = NULL

\* C21: when no fact row has a valid purchase date, calcular_risco_intermitencia
\* returns its input unchanged: the same columns, no helper or enrichment
\* column added, and the same values
C21_JanelaIndeterminadaNaoAlteraATabela ==
    JanelaIndeterminada => /\ pc = "calculado"
                           /\ df.cols = df_in.cols
                           /\ df = df_in

-----------------------------------------------------------------------------
(* The radar generated from the fact table of main, with purchases that share a
   benchmark context and purchases without a date *)

MaxLinhasRadar == 3

LinhasRadar ==
    {ComCompra(ComValores(LinhaBase, 1, 10, 10), T_JAN15),
     ComCompra(ComValores(ComFornecedor(LinhaBase, Fornecedores[2]), 2, 30, 60), T_JAN15),
     ComCompra(ComValores(ComProduto(LinhaBase, Produtos[2]), 3, 20, 60), T_FEV10),
     ComCompra(ComValores(LinhaBase, 1, 40, 40), NULL),
     ComCompra(ComValores(LinhaBase, 0, 30, 0), T_JAN15)}

InitRadar == Inicio(Tabelas(LinhasRadar, MaxLinhasRadar, {}))

NextRadar == PrepararFato \/ GerarRadar

SpecRadar == InitRadar /\ [][NextRadar]_vars

RadarGerado ==
    /\ pc = "calculado"
    /\ etapas = <<"gerar_mini_fato_radar_enriquecida">>
    /\ NRows(df_radar) > 0

\* a fact row that passes the positivity filter
Qualifica(r) == r["preco_total"] > 0 /\ r["qtd_itens_comprados"] > 0

\* the qualifying rows of the fact table the radar was generated from, in order
LinhasQualificadas == SelectSeq(df_in.rows, Qualifica)

\* the unit prices of the qualifying fact rows in the benchmark context of r
PrecosDoContexto(r) ==
    LET g == SelectSeq(LinhasQualificadas,
                       LAMBDA s : /\ s["id_produto"] = r["id_produto"]
                                  /\ s["id_instituicao"] = r["id_instituicao"]
                                  /\ s["id_tempo"] = r["id_tempo"])
    IN  [j \in DOMAIN g |-> g[j]["preco_unitario"]]

\* the three radar measures of the fact row f, as the specification defines them
MedidasEsperadas(f) ==
    LET b == Mediana(PrecosDoContexto(f))
        dif == RSub(RInt(f["preco_unitario"]), b)
    IN  [benchmark |-> b,
         economia |-> RMul(dif, RInt(f["qtd_itens_comprados"])),
         desvio |-> IF b[1] > 0 THEN RDiv(dif, b) ELSE RInt(0)]

MedidasDoRadar(i) ==
    [benchmark |-> df_radar.rows[i]["PMP_Benchmark_Referencia"],
     economia |-> df_radar.rows[i]["Economia_por_Linha"],
     desvio |-> df_radar.rows[i]["Desvio_%_Oportunidade"]]

\* C22: every radar row carries the median unit price of the qualifying fact
\* rows of its (id_produto, id_instituicao, id_tempo), the economy
\* (unit price - benchmark) * quantity and the deviation
\* (unit price - benchmark) / benchmark (0 when the benchmark is not positive),
\* also when its time key is null
C22_MedidasDoRadarPorContexto ==
    RadarGerado =>
        /\ NRows(df_radar) = Len(LinhasQualificadas)
        /\ \A i \in DOMAIN df_radar.rows :
              MedidasDoRadar(i) = MedidasEsperadas(LinhasQualificadas[i])

\* the same statement for the radar rows whose context has no null key
MedidasDoRadarComContextoCompleto ==
    RadarGerado =>
        /\ NRows(df_radar) = Len(LinhasQualificadas)
        /\ \A i \in DOMAIN df_radar.rows :
              df_radar.rows[i]["id_tempo"] # NULL =>
                  MedidasDoRadar(i) = MedidasEsperadas(LinhasQualificadas[i])

ChavesDoRadar == <<"id_pedido", "id_produto", "id_instituicao", "id_fabricante",
                   "id_fornecedor", "id_tempo">>

\* C23: the radar has exactly one row per qualifying fact line, in order, each
\* with the id_pedido and the surrogate keys of its fact line
C23_UmaLinhaDoRadarPorLinhaQualificada ==
    (pc = "calculado" /\ etapas = <<"gerar_mini_fato_radar_enriquecida">>) =>
        /\ NRows(df_radar) = Len(LinhasQualificadas)
        /\ \A i \in DOMAIN df_radar.rows : \A k \in DOMAIN ChavesDoRadar :
              df_radar.rows[i][ChavesDoRadar[k]] = LinhasQualificadas[i][ChavesDoRadar[k]]

\* a radar of two purchases of one benchmark context, next to a fact line that
\* does not qualify
C23_Testemunha ==
    /\ RadarGerado
    /\ NRows(df_in) = 3
    /\ NRows(df_radar) = 2
    /\ df_radar.rows[1]["id_tempo"] = df_radar.rows[2]["id_tempo"]
    /\ df_radar.rows[1]["id_tempo"] # NULL
    /\ df_radar.rows[1]["id_fornecedor"] # df_radar.rows[2]["id_fornecedor"]

-----------------------------------------------------------------------------
(* calcular_zscore_risco applied to a consolidated table, which may lack one of
   the columns it requires *)

MaxLinhasZ == 3

AusenciasZ == {{}, {"compra"}, {"codigo_br"}, {"preco_total"}, {"qtd_itens_comprados"}}

LinhasZ ==
    {ComCompra(ComValores(LinhaBase, 1, 10, 10), T_JAN15),
     ComCompra(ComValores(LinhaBase, 1, 30, 30), T_FEV10),
     ComCompra(ComValores(LinhaBase, 0, 30, 0), T_JAN15),
     ComCompra(ComValores(LinhaBase, 1, 10, 10), NULL),
     ComCompra(ComValores(ComProduto(LinhaBase, Produtos[2]), 3, 20, 60), T_JAN15)}

InitZ == Inicio(UNION {Tabelas(LinhasZ, MaxLinhasZ, a) : a \in AusenciasZ})

NextZ == CalcularZScore

SpecZ == InitZ /\ [][NextZ]_vars

ZScoreCalculado ==
    /\ pc = "calculado"
    /\ etapas = <<"calcular_zscore_risco">>
    /\ HasAll(df_in, colunas_zscore)

\* total / quantity when the quantity is positive, 0 otherwise
PrecoPonderado(r) ==
    IF r["qtd_itens_comprados"] > 0
    THEN Rat(r["preco_total"], r["qtd_itens_comprados"]) ELSE RInt(0)

\* the weighted unit prices of the rows of t in the (catalog code, purchase
\* year) group of row i, rows with price 0 included
PrecosDoGrupo(t, i) ==
    LET g == SelectSeq(t.rows, LAMBDA r : /\ r["compra"] # NULL
                                          /\ r["codigo_br"] = t.rows[i]["codigo_br"]
                                          /\ r["compra"][1] \div 1000000
                                             = t.rows[i]["compra"][1] \div 1000000)
    IN  [k \in DOMAIN g |-> PrecoPonderado(g[k])]

MediaDoGrupo(qs) == RDiv(RSum(qs), RInt(Len(qs)))

\* the sum of the squared deviations from the mean, over n - 1
VarianciaAmostral(qs) ==
    RDiv(RSum([k \in DOMAIN qs |->
                  RMul(RSub(qs[k], MediaDoGrupo(qs)), RSub(qs[k], MediaDoGrupo(qs)))]),
         RInt(Len(qs) - 1))

\* z is d / sqrt(v) to two decimal places: d and z have the same sign and
\* | |z| - |d| / sqrt(v) | <= 1/200
QuocienteADuasCasas(z, d, v) ==
    LET a == RAbs(z)
        q == RDiv(RMul(d, d), v)
        h == Rat(1, 200)
    IN  /\ z[1] * d[1] >= 0
        /\ RLeq(a, h) \/ RLeq(RMul(RSub(a, h), RSub(a, h)), q)
        /\ RLeq(q, RMul(RAdd(a, h), RAdd(a, h)))

\* C24: pmp_individual is preco_total / quantity for a positive quantity and 0
\* otherwise; the rows are grouped by (codigo_br, purchase year), rows with
\* pmp_individual 0 included; every row of a group with a positive sample
\* standard deviation gets the group mean and the score
\* (pmp_individual - mean) / standard deviation, to two decimal places
C24_ZScorePorGrupoDeCodigoEAno ==
    ZScoreCalculado =>
        \A i \in DOMAIN df.rows :
            /\ df.rows[i]["pmp_individual"] = PrecoPonderado(df_in.rows[i])
            /\ (df_in.rows[i]["compra"] # NULL /\ Len(PrecosDoGrupo(df_in, i)) >= 2
                /\ VarianciaAmostral(PrecosDoGrupo(df_in, i))[1] > 0)
               => /\ df.rows[i]["pmp_medio"] = MediaDoGrupo(PrecosDoGrupo(df_in, i))
                  /\ QuocienteADuasCasas(
                         df.rows[i]["score_z_risco"],
                         RSub(PrecoPonderado(df_in.rows[i]),
                              MediaDoGrupo(PrecosDoGrupo(df_in, i))),
                         VarianciaAmostral(PrecosDoGrupo(df_in, i)))

\* two purchases of one group with unit prices 10 and 30 and quantity 1: mean
\* 20 and scores -0.71 and 0.71
C24_Testemunha ==
    /\ ZScoreCalculado
    /\ NRows(df) = 2
    /\ df.rows[1]["pmp_individual"] = RInt(10)
    /\ df.rows[2]["pmp_individual"] = RInt(30)
    /\ df.rows[1]["pmp_medio"] = RInt(20)
    /\ df.rows[2]["pmp_medio"] = RInt(20)
    /\ df.rows[1]["score_z_risco"] = Rat(-71, 100)
    /\ df.rows[2]["score_z_risco"] = Rat(71, 100)

\* the table lacked a column the z-score requires
SemColunaDoZScore ==
    /\ etapas = <<"calcular_zscore_risco">>
    /\ \E c \in {"compra", "codigo_br", "preco_total", "qtd_itens_comprados"} :
          ~HasCol(df_in, c)

\* C27: when compra, codigo_br, preco_total or qtd_itens_comprados is absent,
\* calcular_zscore_risco returns its input: no column added, removed or modified
C27_SemColunaZScoreDevolveAEntrada ==
    SemColunaDoZScore => (pc = "calculado" /\ df.cols = df_in.cols /\ df = df_in)

\* the z-score was called on a table of three purchases without the quantity
C27_Testemunha ==
    /\ SemColunaDoZScore
    /\ ~HasCol(df_in, "qtd_itens_comprados")
    /\ HasAll(df_in, <<"compra", "codigo_br", "preco_total">>)
    /\ NRows(df_in) = 3
    /\ df = df_in

-----------------------------------------------------------------------------
(* The supplier concentration computed on the fact table of main, for products
   bought from one or two suppliers, with equal or different spend *)

MaxLinhasConc == 3

LinhasConc ==
    {ComValores(ComFornecedor(LinhaBase, Fornecedores[1]), 1, 700, 700),
     ComValores(ComFornecedor(LinhaBase, Fornecedores[2]), 1, 300, 300),
     ComValores(ComFornecedor(LinhaBase, Fornecedores[2]), 2, 350, 700),
     ComValores(ComFornecedor(ComProduto(LinhaBase, Produtos[2]), Fornecedores[1]), 0, 30, 0),
     ComValores(ComFornecedor(ComProduto(LinhaBase, Produtos[2]), Fornecedores[2]), 1, 300, 300)}

InitConc == Inicio(Tabelas(LinhasConc, MaxLinhasConc, {}))

NextConc == PrepararFato \/ CalcularConcentracao

SpecConc == InitConc /\ [][NextConc]_vars

ConcentracaoCalculada ==
    /\ pc = "calculado"
    /\ etapas = <<"calcular_concentracao_fornecedor">>

\* the sum of preco_total over the rows of t of the given product
GastoDoProduto(t, produto) ==
    LET rs == SelectSeq(t.rows, LAMBDA r : r["id_produto"] = produto)
    IN  ISum([k \in DOMAIN rs |-> rs[k]["preco_total"]])

\* the same sum over the rows of the given product and supplier
GastoEm(t, produto, forn) ==
    LET rs == SelectSeq(t.rows, LAMBDA r : /\ r["id_produto"] = produto
                                           /\ r["id_fornecedor"] = forn)
    IN  ISum([k \in DOMAIN rs |-> rs[k]["preco_total"]])

FornecedoresDe(t, produto) ==
    {t.rows[k]["id_fornecedor"] : k \in {j \in DOMAIN t.rows :
                                            t.rows[j]["id_produto"] = produto}}

\* largest per-supplier spend over total spend, 0 when the total is not positive
ConcentracaoEsperada(t, produto) ==
    LET total == GastoDoProduto(t, produto)
        maior == MaxDe({GastoEm(t, produto, f) : f \in FornecedoresDe(t, produto)})
    IN  IF total > 0 THEN Rat(maior, total) ELSE RInt(0)

\* C25: every fact row carries, as %_Gasto_Unico_Forn, the largest per-supplier
\* sum of preco_total of its product divided by the product's total
\* preco_total when that total is positive, and 0 when it is not
C25_ConcentracaoDoFornecedorPrincipal ==
    ConcentracaoCalculada =>
        /\ NRows(df) = NRows(df_in)
        /\ \A i \in DOMAIN df.rows :
              df.rows[i]["%_Gasto_Unico_Forn"]
                  = ConcentracaoEsperada(df_in, df_in.rows[i]["id_produto"])

\* a product with spend 700 at one supplier and 300 at another has 0.7 on both
\* of its rows, beside a product whose total spend is 0
C25_Testemunha ==
    /\ ConcentracaoCalculada
    /\ NRows(df) = 3
    /\ \E i, j, k \in DOMAIN df.rows :
          /\ df.rows[i]["preco_total"] = 700
          /\ df.rows[j]["preco_total"] = 300
          /\ df.rows[i]["id_produto"] = df.rows[j]["id_produto"]
          /\ df.rows[i]["id_fornecedor"] # df.rows[j]["id_fornecedor"]
          /\ df.rows[i]["%_Gasto_Unico_Forn"] = Rat(7, 10)
          /\ df.rows[j]["%_Gasto_Unico_Forn"] = Rat(7, 10)
          /\ df.rows[k]["preco_total"] = 0
          /\ df.rows[k]["%_Gasto_Unico_Forn"] = RInt(0)

\* the (product, concentration) pairs of a table that carries the indicator
ConcentracaoPorProduto(t) ==
    {<<t.rows[i]["id_produto"], t.rows[i]["%_Gasto_Unico_Forn"]>> : i \in DOMAIN t.rows}

\* C30: whatever the order of the fact rows, calcular_concentracao_fornecedor
\* gives each product the same %_Gasto_Unico_Forn, also when two suppliers of
\* the product tie for the largest spend
C30_ConcentracaoNaoDependeDaOrdem ==
    ConcentracaoCalculada =>
        \A p \in Permutacoes(NRows(df_in)) :
            Seja(calcular_concentracao_fornecedor(Reordenar(df_in, p)), LAMBDA r :
                 /\ r.erro = ""
                 /\ ConcentracaoPorProduto(r.df) = ConcentracaoPorProduto(df))

\* a product whose two suppliers tie for the largest spend, in a table of
\* three rows
C30_Testemunha ==
    /\ ConcentracaoCalculada
    /\ NRows(df) = 3
    /\ \E i, j \in DOMAIN df.rows :
          /\ df.rows[i]["id_produto"] = df.rows[j]["id_produto"]
          /\ df.rows[i]["id_fornecedor"] # df.rows[j]["id_fornecedor"]
          /\ GastoEm(df, df.rows[i]["id_produto"], df.rows[i]["id_fornecedor"])
             = GastoEm(df, df.rows[j]["id_produto"], df.rows[j]["id_fornecedor"])
          /\ df.rows[i]["%_Gasto_Unico_Forn"] = Rat(1, 2)

-----------------------------------------------------------------------------
(* calcular_indice_priorizacao applied to a fact table in which products may
   tie on risk or on spend, and in which a row may carry no product key *)

MaxLinhasPrior == 3

ColunasFatoPrior == <<"id_produto", "preco_total", "score_z_risco">>

LinhasPrior ==
    {[id_produto |-> "Pro00001", preco_total |-> 10, score_z_risco |-> RInt(0)],
     [id_produto |-> "Pro00001", preco_total |-> 30, score_z_risco |-> Rat(71, 100)],
     [id_produto |-> "Pro00002", preco_total |-> 10, score_z_risco |-> RInt(0)],
     [id_produto |-> "Pro00002", preco_total |-> 10, score_z_risco |-> Rat(-71, 100)],
     [id_produto |-> "Pro00002", preco_total |-> 40, score_z_risco |-> Rat(71, 100)],
     [id_produto |-> "NaN", preco_total |-> 10, score_z_risco |-> Rat(71, 100)]}

\* the fact tables with at least one row that carries a product key
FatosPrior ==
    {t \in {[cols |-> ColunasFatoPrior, rows |-> ls] :
               ls \in SeqsUpTo(LinhasPrior, MaxLinhasPrior)} :
        \E i \in DOMAIN t.rows : t.rows[i]["id_produto"] # "NaN"}

InitPrior ==
    /\ pc = "fato_pronto"
    /\ \E t \in FatosPrior : df = t
    /\ indice = 0
    /\ Neutro

NextPrior == CalcularPriorizacao

SpecPrior == InitPrior /\ [][NextPrior]_vars

PriorizacaoCalculada ==
    /\ pc = "calculado"
    /\ etapas = <<"calcular_indice_priorizacao">>

ProdutosCom(t) == {t.rows[i]["id_produto"] : i \in DOMAIN t.rows} \ {"NaN"}

\* the mean of |score_z_risco| over the rows of the product
RiscoDoProduto(t, produto) ==
    LET rs == SelectSeq(t.rows, LAMBDA r : r["id_produto"] = produto)
    IN  RDiv(RSum([k \in DOMAIN rs |-> RAbs(rs[k]["score_z_risco"])]), RInt(Len(rs)))

DemandaDoProduto(t, produto) == RInt(GastoDoProduto(t, produto))

\* every product of t has the same value of the metric
TodosIguais(t, Metrica(_, _)) ==
    \A p, q \in ProdutosCom(t) : Metrica(t, p) = Metrica(t, q)

\* (v - min) / (max - min) over the products of t, for a metric with max > min
EscalaMinMax(t, Metrica(_, _), produto) ==
    LET vs == {Metrica(t, p) : p \in ProdutosCom(t)}
        mx == CHOOSE x \in vs : \A y \in vs : RLeq(y, x)
        mn == CHOOSE x \in vs : \A y \in vs : RLeq(x, y)
    IN  RDiv(RSub(Metrica(t, produto), mn), RSub(mx, mn))

\* a component that is the same for all products contributes 0 to the index
ComponenteEsperado(t, Metrica(_, _), produto) ==
    IF TodosIguais(t, Metrica) THEN RInt(0) ELSE EscalaMinMax(t, Metrica, produto)

\* C26: a metric (mean absolute z-score, total spend) that is the same for all
\* products contributes a normalized component of 0, so that the index is half
\* the other component, and 0 when both metrics tie or there is one product;
\* a fact row without a product aggregate gets indice_priorizacao 0 and
\* demanda_valor 0
C26_ComponenteConstanteValeZero ==
    PriorizacaoCalculada =>
        /\ NRows(df) = NRows(df_in)
        /\ \A i \in DOMAIN df.rows :
              LET p == df_in.rows[i]["id_produto"]
              IN  IF p = "NaN"
                  THEN /\ df.rows[i]["indice_priorizacao"] = RInt(0)
                       /\ df.rows[i]["demanda_valor"] = RInt(0)
                  ELSE /\ df.rows[i]["indice_priorizacao"]
                          = RRound(RMul(Rat(1, 2),
                                        RAdd(ComponenteEsperado(df_in, RiscoDoProduto, p),
                                             ComponenteEsperado(df_in, DemandaDoProduto, p))),
                                   10000)
                       /\ (TodosIguais(df_in, RiscoDoProduto)
                           /\ TodosIguais(df_in, DemandaDoProduto))
                          => df.rows[i]["indice_priorizacao"] = RInt(0)

\* two products with equal spend and different risk, beside a row without a
\* product key: the index is half the risk component, and 0 on the unkeyed row
C26_Testemunha ==
    /\ PriorizacaoCalculada
    /\ NRows(df) = 3
    /\ Cardinality(ProdutosCom(df_in)) = 2
    /\ TodosIguais(df_in, DemandaDoProduto)
    /\ ~TodosIguais(df_in, RiscoDoProduto)
    /\ \E i, j, k \in DOMAIN df.rows :
          /\ df.rows[i]["indice_priorizacao"] = Rat(1, 2)
          /\ df.rows[j]["indice_priorizacao"] = RInt(0)
          /\ df.rows[j]["id_produto"] # "NaN"
          /\ df.rows[k]["id_produto"] = "NaN"
          /\ df.rows[k]["indice_priorizacao"] = RInt(0)
          /\ df.rows[k]["demanda_valor"] = RInt(0)

\* a table with a single product, and one with two products equal on both
\* metrics, in which every index is 0
SoEmpates ==
    /\ PriorizacaoCalculada
    /\ TodosIguais(df_in, RiscoDoProduto)
    /\ TodosIguais(df_in, DemandaDoProduto)
    /\ \A i \in DOMAIN df.rows : df.rows[i]["indice_priorizacao"] = RInt(0)
EmpateEntreDoisProdutos == SoEmpates /\ Cardinality(ProdutosCom(df_in)) = 2

-----------------------------------------------------------------------------
(* The run of main on purchases whose prices differ within a (catalog code,
   purchase year) group, from tables that may lack a value column *)

MaxLinhasFluxo == 3

AusenciasFluxo == {{}, {"preco_total"}, {"qtd_itens_comprados"}}

LinhasFluxo ==
    {ComCompra(ComValores(LinhaBase, 1, 10, 10), T_JAN15),
     ComCompra(ComValores(LinhaBase, 1, 40, 40), T_FEV10),
     ComCompra(ComValores(ComProduto(LinhaBase, Produtos[2]), 3, 20, 60), T_JAN15),
     ComCompra(ComValores(LinhaBase, 0, 30, 0), NULL)}

InitFluxo == Inicio(UNION {Tabelas(LinhasFluxo, MaxLinhasFluxo, a) : a \in AusenciasFluxo})

SpecFluxo == InitFluxo /\ [][Next]_vars

\* both tables lack score_z_risco, or both carry it with the same values
MesmosEscores(t, u) ==
    /\ HasCol(t, "score_z_risco") <=> HasCol(u, "score_z_risco")
    /\ HasCol(t, "score_z_risco") => Coluna(t, "score_z_risco") = Coluna(u, "score_z_risco")

\* the score of row i of t is the z-score of its weighted unit price within
\* its (codigo_br, purchase year) group, 0 without a group or without dispersion
EscoreDoGrupo(t, i) ==
    IF t.rows[i]["compra"] = NULL THEN t.rows[i]["score_z_risco"] = RInt(0)
    ELSE IF Len(PrecosDoGrupo(t, i)) < 2 THEN t.rows[i]["score_z_risco"] = RInt(0)
    ELSE IF VarianciaAmostral(PrecosDoGrupo(t, i))[1] = 0
         THEN t.rows[i]["score_z_risco"] = RInt(0)
    ELSE QuocienteADuasCasas(t.rows[i]["score_z_risco"],
                             RSub(PrecoPonderado(t.rows[i]),
                                  MediaDoGrupo(PrecosDoGrupo(t, i))),
                             VarianciaAmostral(PrecosDoGrupo(t, i)))

PassosAposOZScore == {"passo7", "passo8", "passo9", "passo10", "passo11", "fim"}

PriorizacaoSemEscore ==
    /\ pc = "passo8"
    /\ ~HasCol(df_in, "score_z_risco")
    /\ df = df_in

-----------------------------------------------------------------------------
(* criar_e_integrar_dimensoes as main calls it, on purchases that repeat
   attribute values, share a calendar date or have no date *)

MaxLinhasInteg == 3

AusenciasInteg == {{}, {"fabricante"}}

LinhasInteg ==
    {ComCompra(ComFabricante(ComFornecedor(ComProduto(ComInstituicao(LinhaBase,
         Instituicoes[2]), Produtos[2]), Fornecedores[2]), Fabricantes[2]), T_JAN15),
     ComCompra(LinhaBase, T_JAN15_12H),
     ComCompra(ComFornecedor(LinhaBase, Fornecedores[2]), T_DEZ20),
     ComCompra(LinhaBase, NULL)}

InitInteg == Inicio(UNION {Tabelas(LinhasInteg, MaxLinhasInteg, a) : a \in AusenciasInteg})

NextInteg == PassoGerarIdPedido \/ PassoDimensoes

SpecInteg == InitInteg /\ [][NextInteg]_vars

\* criar_e_integrar_dimensoes has returned: df_in is the table it received, df
\* the fact table it returned, dims the dimension tables it wrote
IntegracaoConcluida ==
    /\ pc = "passo6"
    /\ etapas[Len(etapas)] = "criar_e_integrar_dimensoes"

\* the tables emitted under the given name
Emitidas(nome) == SelectSeq(dims, LAMBDA d : d.nome = nome)

\* the key of row i of the fact is the key of an emitted dimension row that
\* has the attribute values row i of the input had
ChaveReferenciaDimensao(nome, i) ==
    LET k == df.rows[i][ChavePrimariaDe(nome)]
    IN  k # "NaN" =>
            /\ Len(Emitidas(nome)) = 1
            /\ \E r \in Range(Emitidas(nome)[1].tabela.rows) :
                  /\ r[ChavePrimariaDe(nome)] = k
                  /\ Atributos(r, AtributosDe(nome)) = Atributos(df_in.rows[i], AtributosDe(nome))

\* the time key of row i of the fact is the key of an emitted time row of the
\* calendar date row i of the input had
ChaveReferenciaTempo(i) ==
    LET k == df.rows[i]["id_tempo"]
    IN  k # NULL =>
            /\ Len(Emitidas("tempo")) = 1
            /\ \E r \in Range(Emitidas("tempo")[1].tabela.rows) : r["id_tempo"] = k
            /\ df_in.rows[i]["compra"] # NULL
            /\ k[1] = df_in.rows[i]["compra"][1] \div 100

\* the columns integration neither consumes nor creates
ColunasMantidas == {"id_pedido", "insercao", "modalidade_compra", "tipo_compra",
                    "qtd_itens_comprados", "preco_unitario", "preco_total"}

\* C29: in the fact table criar_e_integrar_dimensoes returns, every non-null
\* id_instituicao, id_produto, id_fornecedor, id_fabricante and id_tempo is the
\* key of a row of the dimension emitted in the same run, and there is one
\* output row per input row, in the same order
C29_IntegridadeReferencial ==
    IntegracaoConcluida =>
        /\ NRows(df) = NRows(df_in)
        /\ \A i \in DOMAIN df.rows :
              /\ \A c \in ColunasMantidas : df.rows[i][c] = df_in.rows[i][c]
              /\ \A nome \in {"instituicao", "produto", "fornecedor", "fabricante"} :
                    HasCol(df, ChavePrimariaDe(nome)) => ChaveReferenciaDimensao(nome, i)
              /\ HasCol(df, "id_tempo") => ChaveReferenciaTempo(i)

\* three purchases of two institutions, two products and two suppliers were
\* integrated with all five dimensions, one of the purchases without a date
C29_Testemunha ==
    /\ IntegracaoConcluida
    /\ NRows(df) = 3
    /\ Len(dims) = 5
    /\ HasAll(df, <<"id_instituicao", "id_produto", "id_fornecedor", "id_fabricante",
                    "id_tempo">>)
    /\ \E i, j, k \in DOMAIN df.rows :
          /\ df.rows[i]["id_produto"] # df.rows[j]["id_produto"]
          /\ df.rows[i]["id_instituicao"] # df.rows[j]["id_instituicao"]
          /\ df.rows[i]["id_fornecedor"] # df.rows[j]["id_fornecedor"]
          /\ df.rows[i]["id_tempo"] # NULL
          /\ df.rows[j]["id_tempo"] # NULL
          /\ df.rows[k]["id_tempo"] = NULL

====
